---- MODULE Spec2Model ----
(***************************************************************************)
(* Literature retrieval pipeline of ResearchAssistant: title similarity,   *)
(* duplicate filtering, parallel enrichment of Google Scholar results with *)
(* Semantic Scholar data, and the search_papers aggregator.                *)
(*                                                                         *)
(* Strings are sequences of one-character strings.  Python's None is the   *)
(* value None below, which is no string.  A ratio returned by              *)
(* SequenceMatcher.ratio() is kept exact as a record [num, den].  Ranking   *)
(* scores are Python floats, computed with the rounding of binary64.       *)
(***************************************************************************)
EXTENDS Integers, Sequences, FiniteSets, TLC

VARIABLES
    \* a single call of one function of the code base
    fn,         \* the function called
    args,       \* its arguments
    called,     \* TRUE once the call has returned or raised
    ret,        \* what the call returned
    environ,    \* os.environ of the process: SERPAPI_KEY, or Missing when unset
    dotenv_file \* the .env file that load_dotenv() finds: SERPAPI_KEY, or Missing

hvars == <<fn, args, called, ret, environ, dotenv_file>>

VARIABLES
    \* one call of search_papers(query, max_results)
    pc,               \* "import", "import_failed", "primary", "secondary", "enrich",
                      \* "cancel", "shutdown", "done", or "idle"
    sem_resp,         \* the Semantic Scholar response to the query
    sem_results,      \* search_papers' sem_results
    gs_resp,          \* the Google Scholar response to the query
    unique_gs,        \* enrich_gs_results_parallel's unique_gs
    futures,          \* one future per element of unique_gs, in submission order
    fs,               \* the futures executor.map's result iterator has still to
                      \* cancel, as indices into futures, the next one first
    enriched_results, \* enrich_gs_results_parallel's enriched_results
    gs_results,       \* search_papers' gs_results
    result            \* outcome of search_papers once pc = "done"

pvars == <<pc, sem_resp, sem_results, gs_resp, unique_gs, futures, fs,
           enriched_results, gs_results, result>>

VARIABLES
    \* one call of the paginated googlescholar_results(params)
    g_pc,       \* "idle", "fetch" (about to call search.get_dict()), "returned", "raised"
    g_data,     \* googlescholar_results_data
    g_count,    \* count
    g_fetches,  \* number of pages fetched so far
    g_next      \* "next" in results.get("serpapi_pagination", {}) for the page fetched last

gvars == <<g_pc, g_data, g_count, g_fetches, g_next>>

vars == <<hvars, pvars, gvars>>

(***************************************************************************)
(* Bounds                                                                  *)
(***************************************************************************)
MaxLen == 3          \* longest string handed to similar()
MaxRecs == 2         \* longest sem_results list handed to is_duplicate()
MaxPapers == 2       \* most papers in the Semantic Scholar response to the query
MaxOrganic == 2      \* most organic results in a Google Scholar response
MaxFetches == 6      \* most pages the paginated adapter is followed through
MaxRanked == 3       \* most papers handed to rank_papers_by_relevance()

(***************************************************************************)
(* Strings                                                                 *)
(***************************************************************************)
\* Python values carry their type: None, a str (sequence of characters),
\* an int, a list.  Missing marks a key that a dict does not have.
None == <<"None">>
Missing == <<"Missing">>
Str(s) == <<"str", s>>
PyInt(n) == <<"int", n>>
List(xs) == <<"list", xs>>
Dict(d) == <<"dict", d>>
IsStr(v) == v[1] = "str"
IsList(v) == v[1] = "list"
IsDict(v) == v[1] = "dict"
EmptyStr == Str(<<>>)

Chars == {"a", "b", "c", "A"}

RECURSIVE StringsOver(_, _)
StringsOver(alphabet, n) ==
    IF n = 0 THEN {<<>>}
    ELSE LET shorter == StringsOver(alphabet, n - 1)
         IN  shorter \cup {Append(s, c) : s \in {t \in shorter : Len(t) = n - 1}, c \in alphabet}

LowerChar(c) ==
    CASE c = "A" -> "a"
      [] c = "B" -> "b"
      [] c = "C" -> "c"
      [] OTHER -> c

lower(s) == [k \in 1..Len(s) |-> LowerChar(s[k])]

SetMax(S) == CHOOSE x \in S : \A y \in S : y <= x
SetMin(S) == CHOOSE x \in S : \A y \in S : x <= y

(***************************************************************************)
(* difflib.SequenceMatcher(None, a, b), as called by similar().            *)
(* Indices are 0-based and windows half-open, as in the library.           *)
(***************************************************************************)
AutojunkMinLen == 200

\* autojunk: elements of b occurring more than len(b)//100 + 1 times are
\* dropped from the b2j index when len(b) >= 200.
bpopular(b) ==
    IF Len(b) >= AutojunkMinLen
    THEN {c \in {b[k] : k \in 1..Len(b)} :
            Cardinality({k \in 1..Len(b) : b[k] = c}) > (Len(b) \div 100) + 1}
    ELSE {}

\* length of the longest run a[i:i+k] == b[j:j+k] of indexed elements of b
\* that stays inside a[:ahi] and b[:bhi]
RECURSIVE RunLen(_, _, _, _, _, _, _)
RunLen(a, b, pop, i, j, ahi, bhi) ==
    IF i < ahi /\ j < bhi /\ a[i + 1] = b[j + 1] /\ b[j + 1] \notin pop
    THEN 1 + RunLen(a, b, pop, i + 1, j + 1, ahi, bhi)
    ELSE 0

RECURSIVE ExtendBack(_, _, _, _, _)
ExtendBack(a, b, alo, blo, m) ==
    IF m.i > alo /\ m.j > blo /\ a[m.i] = b[m.j]
    THEN ExtendBack(a, b, alo, blo, [i |-> m.i - 1, j |-> m.j - 1, size |-> m.size + 1])
    ELSE m

RECURSIVE ExtendFwd(_, _, _, _, _)
ExtendFwd(a, b, ahi, bhi, m) ==
    IF m.i + m.size < ahi /\ m.j + m.size < bhi /\ a[m.i + m.size + 1] = b[m.j + m.size + 1]
    THEN ExtendFwd(a, b, ahi, bhi, [m EXCEPT !.size = m.size + 1])
    ELSE m

\* of all maximal matching blocks, the one that starts earliest in a and,
\* of those, earliest in b; then extended on both ends
find_longest_match(a, b, alo, ahi, blo, bhi) ==
    LET pop   == bpopular(b)
        pairs == (alo..(ahi - 1)) \X (blo..(bhi - 1))
        run   == [p \in pairs |-> RunLen(a, b, pop, p[1], p[2], ahi, bhi)]
        best  == IF pairs = {} THEN 0 ELSE SetMax({run[p] : p \in pairs})
        besti == SetMin({p[1] : p \in {q \in pairs : run[q] = best}})
        bestj == SetMin({p[2] : p \in {q \in pairs : run[q] = best /\ q[1] = besti}})
        found == IF best = 0
                 THEN [i |-> alo, j |-> blo, size |-> 0]
                 ELSE [i |-> besti, j |-> bestj, size |-> best]
    IN  ExtendFwd(a, b, ahi, bhi, ExtendBack(a, b, alo, blo, found))

\* total size of get_matching_blocks(): the longest match, then the same
\* to its left and to its right
RECURSIVE MatchTotal(_, _, _, _, _, _)
MatchTotal(a, b, alo, ahi, blo, bhi) ==
    LET m == find_longest_match(a, b, alo, ahi, blo, bhi)
    IN  IF m.size = 0 THEN 0
        ELSE m.size
             + (IF alo < m.i /\ blo < m.j
                THEN MatchTotal(a, b, alo, m.i, blo, m.j) ELSE 0)
             + (IF m.i + m.size < ahi /\ m.j + m.size < bhi
                THEN MatchTotal(a, b, m.i + m.size, ahi, m.j + m.size, bhi) ELSE 0)

\* ratio(): 2.0 * matches / (len(a) + len(b)), and 1.0 for two empty strings
SequenceMatcherRatio(a, b) ==
    IF Len(a) + Len(b) = 0
    THEN [num |-> 1, den |-> 1]
    ELSE [num |-> 2 * MatchTotal(a, b, 0, Len(a), 0, Len(b)), den |-> Len(a) + Len(b)]

RatGE(r, t) == r.num * t.den >= t.num * r.den
RatEQ(r, t) == r.num * t.den = t.num * r.den
One == [num |-> 1, den |-> 1]

(***************************************************************************)
(* utils.py                                                                *)
(***************************************************************************)
\* a.lower() / b.lower() raise AttributeError unless a and b are str
similar_raises(a, b) == ~IsStr(a) \/ ~IsStr(b)

\* variant: the strings are compared as they are
similar_case_sensitive(a, b) == SequenceMatcherRatio(a[2], b[2])

similar(a, b) == SequenceMatcherRatio(lower(a[2]), lower(b[2]))

RatGT(r, t) == r.num * t.den > t.num * r.den

DefaultThreshold == [num |-> 9, den |-> 10]

\* any(...) stops at the first record at or above the threshold; a title
\* that is no str raises when that record is reached
is_duplicate_raises(gs_title, sem_papers, threshold) ==
    \E k \in 1..Len(sem_papers) :
        /\ similar_raises(gs_title, sem_papers[k].title)
        /\ \A h \in 1..(k - 1) :
              /\ ~similar_raises(gs_title, sem_papers[h].title)
              /\ ~RatGE(similar(gs_title, sem_papers[h].title), threshold)

\* variant: a record exactly at the threshold is no duplicate
is_duplicate_strict(gs_title, sem_papers, threshold) ==
    \E k \in 1..Len(sem_papers) :
        /\ \A h \in 1..k : ~similar_raises(gs_title, sem_papers[h].title)
        /\ RatGT(similar(gs_title, sem_papers[k].title), threshold)

is_duplicate(gs_title, sem_papers, threshold) ==
    \E k \in 1..Len(sem_papers) :
        /\ \A h \in 1..k : ~similar_raises(gs_title, sem_papers[h].title)
        /\ RatGE(similar(gs_title, sem_papers[k].title), threshold)

(***************************************************************************)
(* Outcome of a call: a returned value, or an exception that escapes.      *)
(***************************************************************************)
Return(v) == [raised |-> FALSE, value |-> v]
Raise == [raised |-> TRUE, value |-> <<>>]

\* d.get(key, default) on a dict whose absent keys are marked Missing
Get(d, key, default) == IF d[key] = Missing THEN default ELSE d[key]

\* ", ".join(names) of str values
RECURSIVE JoinComma(_)
JoinComma(names) ==
    IF Len(names) = 0 THEN <<>>
    ELSE IF Len(names) = 1 THEN names[1][2]
    ELSE names[1][2] \o <<",", " ">> \o JoinComma(Tail(names))

(***************************************************************************)
(* SearchSemanticScholar.py                                                *)
(* A response is [kind, data]: kind "transport_error" (requests.get        *)
(* raises), "http_error" (raise_for_status raises), "bad_shape" (the body  *)
(* is no JSON object with an iterable "data"), or "ok" with the papers     *)
(* under "data".                                                           *)
(***************************************************************************)
NoResponse == [kind |-> "none", data |-> <<>>]

\* a str, a list and a dict can be iterated: over the characters, the
\* elements and the keys
IsIterable(v) == v[1] \in {"str", "list", "dict"}
DictGet(v, key) == IF key \in DOMAIN v[2] THEN v[2][key] ELSE Missing
DictKeys(v) == {k \in DOMAIN v[2] : v[2][k] # Missing}
IterLen(v) == IF IsDict(v) THEN Cardinality(DictKeys(v)) ELSE Len(v[2])

\* the names that line 27 joins: one per element of a list of authors
author_names(paper) ==
    LET authors == Get(paper, "authors", List(<<>>))
    IN  IF IsList(authors)
        THEN [k \in 1..Len(authors[2]) |-> Get(authors[2][k], "name", EmptyStr)]
        ELSE <<>>

\* line 27 raises when authors cannot be iterated (null, a number), when it
\* is a str or a dict that is not empty (a character or a key has no
\* .get), or when a name is no str (join)
sem_paper_raises(paper) ==
    LET authors == Get(paper, "authors", List(<<>>))
    IN  \/ ~IsIterable(authors)
        \/ ~IsList(authors) /\ IterLen(authors) > 0
        \/ \E k \in 1..Len(author_names(paper)) : ~IsStr(author_names(paper)[k])

sem_paper_record(paper) ==
    [title     |-> Get(paper, "title", EmptyStr),
     url       |-> Get(paper, "url", EmptyStr),
     year      |-> Get(paper, "year", EmptyStr),
     venue     |-> Get(paper, "venue", EmptyStr),
     authors   |-> Str(JoinComma(author_names(paper))),
     citations |-> Get(paper, "citationCount", EmptyStr),
     abstract  |-> Get(paper, "abstract", EmptyStr)]

\* the try block, lines 18-31
sem_try_body(response) ==
    IF response.kind # "ok" THEN Raise
    ELSE IF \E k \in 1..Len(response.data) : sem_paper_raises(response.data[k]) THEN Raise
    ELSE Return([k \in 1..Len(response.data) |-> sem_paper_record(response.data[k])])

\* except Exception: return []
get_semantic_scholar_results(response) ==
    IF sem_try_body(response).raised THEN Return(<<>>) ELSE sem_try_body(response)

(***************************************************************************)
(* SearchGoogleScholar.py                                                  *)
(***************************************************************************)
AdoptThreshold == [num |-> 9, den |-> 10]

\* the record built from the Google Scholar result's own fields
fallback_raises(gs_result) ==
    LET pub == Get(gs_result, "publication_info", Dict([summary |-> Missing]))
        inl == Get(gs_result, "inline_links", Dict([cited_by |-> Missing]))
    IN  \/ ~IsDict(pub)
        \/ ~IsDict(inl)
        \/ ~IsDict(Get(inl[2], "cited_by", Dict([total |-> Missing])))

fallback_record(gs_result) ==
    LET pub == Get(gs_result, "publication_info", Dict([summary |-> Missing]))
        inl == Get(gs_result, "inline_links", Dict([cited_by |-> Missing]))
        cit == Get(inl[2], "cited_by", Dict([total |-> Missing]))
    IN  [title     |-> Get(gs_result, "title", EmptyStr),
         url       |-> Get(gs_result, "link", EmptyStr),
         year      |-> EmptyStr,
         venue     |-> EmptyStr,
         authors   |-> Get(pub[2], "summary", EmptyStr),
         citations |-> Get(cit[2], "total", EmptyStr),
         abstract  |-> Get(gs_result, "snippet", EmptyStr)]

\* variant: a lookup title exactly at 0.9 is not adopted
enrich_adopt_strict(gs_result, lookup) ==
    LET query_title == Get(gs_result, "title", EmptyStr)
        sem_papers  == get_semantic_scholar_results(lookup).value
        fallback    == IF fallback_raises(gs_result) THEN Raise
                       ELSE Return(fallback_record(gs_result))
    IN  IF Len(sem_papers) > 0
        THEN IF similar_raises(sem_papers[1].title, query_title) THEN Raise
             ELSE IF RatGT(similar(sem_papers[1].title, query_title), AdoptThreshold)
                  THEN Return(sem_papers[1])
                  ELSE fallback
        ELSE fallback

\* enrich_with_semantic_scholar, after the sleep: lookup is the response of
\* the single-result Semantic Scholar request for the result's title
enrich_with_semantic_scholar(gs_result, lookup) ==
    LET query_title == Get(gs_result, "title", EmptyStr)
        sem_papers == get_semantic_scholar_results(lookup).value
        fallback    == IF fallback_raises(gs_result) THEN Raise
                       ELSE Return(fallback_record(gs_result))
    IN  IF Len(sem_papers) > 0
        THEN IF similar_raises(sem_papers[1].title, query_title) THEN Raise
             ELSE IF RatGE(similar(sem_papers[1].title, query_title), AdoptThreshold)
                  THEN Return(sem_papers[1])
                  ELSE fallback
        ELSE fallback

\* lines 57-60: the results whose title is no duplicate of a primary result
dedup_raises(gs_raw_results, sem_papers) ==
    \E k \in 1..Len(gs_raw_results) :
        is_duplicate_raises(Get(gs_raw_results[k], "title", EmptyStr), sem_papers, DefaultThreshold)

\* variant: no result is filtered out
unique_gs_unfiltered(gs_raw_results, sem_papers) == gs_raw_results

unique_gs_of(gs_raw_results, sem_papers) ==
    LET keep(res) == ~is_duplicate(Get(res, "title", EmptyStr), sem_papers, DefaultThreshold)
    IN  SelectSeq(gs_raw_results, keep)

\* variant: no except clause
gs_try_propagate(body) == body

\* lines 84-92: the exception of the try block is swallowed
gs_try_except(body) == IF body.raised THEN Return(<<>>) ELSE body

\* variant: the results in the order in which the tasks completed
map_results_as_completed(futs) ==
    [k \in 1..Len(futs) |-> futs[CHOOSE i \in 1..Len(futs) : futs[i].done_at = k].result[1]]

\* executor.map: the results in the order of the submitted futures
map_results(futs) == [i \in 1..Len(futs) |-> futs[i].result[1]]

\* line 47: the default of enrich_gs_results_parallel, which line 88 leaves
max_workers == 5

(***************************************************************************)
(* lit_review_engine.py (package): search_papers                           *)
(***************************************************************************)
\* variant: the secondary results first
search_papers_return_swapped(sem, gs) == gs \o sem

search_papers_return(sem, gs) == sem \o gs

\* ---- the sources' possible answers ----
T_ab == <<"a", "b">>
T_Ab == <<"A", "b">>
T_c  == <<"c">>
T_C  == <<"C">>
T_L1 == <<"a", "a", "a", "a", "a", "a", "a", "a", "a", "b">>
T_L2 == <<"a", "a", "a", "a", "a", "a", "a", "a", "a", "c">>
T_L3 == <<"a", "a", "a", "a", "a", "a", "a", "a", "c", "c">>

OneAuthor == List(<<[name |-> Str(<<"n">>)]>>)

SemPaper(title, authors, venue) ==
    [title |-> title, url |-> Str(<<"u">>), year |-> PyInt(2020), venue |-> venue,
     authors |-> authors, citationCount |-> PyInt(7), abstract |-> Str(<<"x">>)]

GsResult(title) ==
    [title |-> title, link |-> Str(<<"l">>),
     publication_info |-> Dict([summary |-> Str(<<"s">>)]),
     inline_links |-> Dict([cited_by |-> Dict([total |-> PyInt(3)])]),
     snippet |-> Str(<<"t">>)]

GsBare(title) ==
    [title |-> title, link |-> Missing, publication_info |-> Missing,
     inline_links |-> Missing, snippet |-> Missing]

SeqsUpTo(S, n) == UNION {[1..k -> S] : k \in 0..n}

ErrorResponses ==
    {[kind |-> k, data |-> <<>>] : k \in {"transport_error", "http_error", "bad_shape"}}

PrimaryPapers ==
    {SemPaper(Str(T_ab), OneAuthor, Str(<<"v">>)),
     SemPaper(None, OneAuthor, Str(<<"v">>))}

\* the answers of Semantic Scholar to the query: a failure, up to MaxPapers
\* papers, a paper whose authors are null (alone, or after a well-formed
\* paper), or a paper without a title
PrimaryResponses ==
    ErrorResponses
    \cup {[kind |-> "ok", data |-> d] : d \in SeqsUpTo(PrimaryPapers, MaxPapers)}
    \cup {[kind |-> "ok", data |-> <<SemPaper(Str(T_ab), None, Str(<<"v">>))>>],
          [kind |-> "ok", data |-> <<SemPaper(Str(T_ab), OneAuthor, Str(<<"v">>)),
                                     SemPaper(Str(T_c), None, Str(<<"v">>))>>],
          [kind |-> "ok", data |-> <<SemPaper(Missing, OneAuthor, Str(<<"v">>))>>]}

LookupPapers ==
    {SemPaper(Str(T_C), OneAuthor, Str(<<"w">>)),
     SemPaper(Str(T_L2), OneAuthor, Str(<<"w">>)),
     SemPaper(None, OneAuthor, Str(<<"w">>))}

\* the answers of Semantic Scholar to a lookup, which asks for one result
LookupResponses ==
    {[kind |-> "transport_error", data |-> <<>>]}
    \cup {[kind |-> "ok", data |-> d] : d \in SeqsUpTo(LookupPapers, 1)}

OrganicList == <<GsResult(Str(T_Ab)), GsBare(Str(T_c)), GsResult(Str(T_L1))>>
OrganicResults == {OrganicList[k] : k \in 1..Len(OrganicList)}

\* the lists of up to n different results that follow the order of
\* OrganicList or the opposite order
OrganicListsUpTo(n) ==
    {[k \in 1..Len(q) |-> OrganicList[q[k]]] :
        q \in {r \in SeqsUpTo(1..Len(OrganicList), n) :
                  \/ \A k \in 1..(Len(r) - 1) : r[k] < r[k + 1]
                  \/ \A k \in 1..(Len(r) - 1) : r[k] > r[k + 1]}}

\* the answers of Google Scholar: a failure, an answer without (or with a
\* null) organic_results, or a list of up to MaxOrganic different results
SecondaryResponses ==
    {[kind |-> "transport_error", organic_results |-> Missing],
     [kind |-> "ok", organic_results |-> Missing],
     [kind |-> "ok", organic_results |-> None]}
    \cup {[kind |-> "ok", organic_results |-> List(d)] : d \in OrganicListsUpTo(MaxOrganic)}

\* ---- the process configuration and the requested number of results ----
ConfiguredEnviron == [SERPAPI_KEY |-> Str(<<"=", "'", "k", "'", "=">>)]
Environs == {ConfiguredEnviron, [SERPAPI_KEY |-> Missing]}

\* no .env file, or one that sets the key
NoDotenv == [SERPAPI_KEY |-> Missing]
DotenvFiles == {NoDotenv, ConfiguredEnviron}

DefaultMaxResults == 3
MaxResultsValues == {0, DefaultMaxResults}

\* what the sources answer to a request for zero results: a refusal, no
\* record, or a record all the same
PrimaryResponsesTo(max_results) ==
    IF max_results = 0
    THEN {[kind |-> "http_error", data |-> <<>>],
          [kind |-> "ok", data |-> <<>>],
          [kind |-> "ok", data |-> <<SemPaper(Str(T_ab), OneAuthor, Str(<<"v">>))>>]}
    ELSE PrimaryResponses

SecondaryResponsesTo(max_results) ==
    IF max_results = 0
    THEN {[kind |-> "ok", organic_results |-> Missing],
          [kind |-> "ok", organic_results |-> List(<<GsBare(Str(T_c))>>)]}
    ELSE SecondaryResponses

NoGsResponse == [kind |-> "none", organic_results |-> Missing]

\* ---- search_papers ----
\* line 66: get_googlescholar_results called without sem_results, which is
\* then None
sem_results_is_None == fn = "get_googlescholar_results" /\ ~args.sem_results_given

\* variant: None read as the empty list
iter_None_raises_lenient(gs_raw_results) == FALSE

\* utils.py line 25, reached from line 59 for the first result: the
\* generator over sem_results calls iter(None), a TypeError
iter_None_raises(gs_raw_results) == Len(gs_raw_results) > 0

\* a future as submit leaves it: PENDING, its work item in the pool's queue
PendingFuture ==
    [state |-> "pending", queued |-> TRUE, lookup |-> NoResponse, result |-> <<>>, done_at |-> 0]

\* the tasks in progress: asleep, or waiting for their lookup, which may be
\* one that never returns ("hung")
Running(futs) == {i \in 1..Len(futs) : futs[i].state \in {"sleeping", "lookup", "hung"}}

\* the work items a worker thread holds: taken off the queue and not yet
\* done (the item of a cancelled future is dropped as soon as it is taken)
Held(futs) ==
    {i \in 1..Len(futs) :
        ~futs[i].queued /\ futs[i].state \in {"pending", "sleeping", "lookup", "hung"}}

\* the pipeline is inside enrich_gs_results_parallel's with block
InPool == {"enrich", "cancel", "shutdown"}

\* the size of the pool: max_workers of a direct call, else the default
pool_size == IF fn = "enrich_gs_results_parallel" THEN args.max_workers ELSE max_workers

\* variant: a thread per task, whatever max_workers
worker_free_unbounded(futs, workers) == TRUE

\* line 62: ThreadPoolExecutor(max_workers) has at most max_workers worker
\* threads, and a thread holds one work item at a time
worker_free(futs, workers) == Cardinality(Held(futs)) < workers

\* variant: leaving the with block does not wait
shutdown_no_wait(futs) == TRUE

\* line 62: __exit__ calls shutdown(wait=True), which joins the workers; a
\* worker ends when the queue is drained and its own item is done
shutdown_waits(futs) == Held(futs) = {} /\ \A i \in 1..Len(futs) : ~futs[i].queued
Resolved(futs) == {i \in 1..Len(futs) : futs[i].state \in {"finished", "raised"}}

\* the tasks whose request never returns
Hung(futs) == {i \in 1..Len(futs) : futs[i].state = "hung"}

\* line 32: each task sends its own request on its own thread, and the
\* answer depends on no other task's request
lookup_answerable(futs, i) == futs[i].state = "lookup"

InitPipeline ==
    /\ pc = "import"
    /\ sem_resp = NoResponse
    /\ sem_results = <<>>
    /\ gs_resp = NoGsResponse
    /\ unique_gs = <<>>
    /\ futures = <<>>
    /\ fs = <<>>
    /\ enriched_results = <<>>
    /\ gs_results = <<>>
    /\ result = Return(<<>>)

IdlePipeline ==
    /\ pc = "idle"
    /\ sem_resp = NoResponse
    /\ sem_results = <<>>
    /\ gs_resp = NoGsResponse
    /\ unique_gs = <<>>
    /\ futures = <<>>
    /\ fs = <<>>
    /\ enriched_results = <<>>
    /\ gs_results = <<>>
    /\ result = Return(<<>>)

IdlePaged ==
    /\ g_pc = "idle"
    /\ g_data = <<>>
    /\ g_count = 0
    /\ g_fetches = 0
    /\ g_next = FALSE

IdleHarness ==
    /\ fn = "search_papers"
    /\ args \in [max_results : MaxResultsValues]
    /\ called = FALSE
    /\ environ \in Environs
    \* a .env file is tried with the requests for zero results, the
    \* shortest calls
    /\ dotenv_file \in IF args.max_results = 0 THEN DotenvFiles ELSE {NoDotenv}
    /\ ret = <<>>

\* SearchGoogleScholar.py line 8, run when lit_review_engine is imported:
\* os.environ.get("SERPAPI_KEY") is None for an unset key and None.strip
\* raises AttributeError, so the import fails and search_papers is never
\* defined
SERPAPI_KEY_raises(env) == env.SERPAPI_KEY = Missing

\* line 7: load_dotenv() adds the keys of the .env file that the process
\* environment does not have (override=False)
load_dotenv(env, file) ==
    [k \in DOMAIN env |-> IF env[k] = Missing THEN file[k] ELSE env[k]]

\* lines 7-8 of SearchGoogleScholar.py
ImportModules ==
    /\ pc = "import"
    /\ environ' = load_dotenv(environ, dotenv_file)
    /\ pc' = IF SERPAPI_KEY_raises(environ') THEN "import_failed" ELSE "primary"
    /\ UNCHANGED <<sem_resp, sem_results, gs_resp, unique_gs, futures, fs, enriched_results,
                   gs_results, result, fn, args, called, ret, dotenv_file, gvars>>

\* line 12: get_semantic_scholar_results(query, max_results) returns
PrimaryReturns(resp) ==
    /\ pc = "primary"
    /\ sem_resp' = resp
    /\ LET out == get_semantic_scholar_results(resp)
       IN  IF out.raised
           THEN /\ pc' = "done"
                /\ result' = Raise
                /\ sem_results' = sem_results
           ELSE /\ pc' = "secondary"
                /\ result' = result
                /\ sem_results' = out.value
    /\ UNCHANGED <<gs_resp, unique_gs, futures, fs, enriched_results, gs_results, hvars, gvars>>

\* get_googlescholar_results returns (or raises) and search_papers returns
\* sem_results + gs_results
FinishSearch(body) ==
    LET direct == fn = "enrich_gs_results_parallel"
        out == IF direct THEN body ELSE gs_try_except(body)
    IN  /\ pc' = "done"
        /\ gs_results' = out.value
        /\ result' = IF out.raised THEN Raise
                     ELSE IF direct THEN out
                     ELSE Return(search_papers_return(sem_results, out.value))

\* lines 85-88 and 57-62: the Google Scholar request returns, the duplicates
\* are filtered out and the pool is created; no task is submitted yet
SecondaryReturns(resp) ==
    /\ pc = "secondary"
    /\ gs_resp' = resp
    /\ LET organic == Get(resp, "organic_results", List(<<>>))
       IN  IF resp.kind # "ok" \/ ~IsList(organic)
           THEN /\ FinishSearch(Raise)
                /\ UNCHANGED <<unique_gs, futures, fs>>
           ELSE IF \/ sem_results_is_None /\ iter_None_raises(organic[2])
                   \/ dedup_raises(organic[2], sem_results)
           THEN /\ FinishSearch(Raise)
                /\ UNCHANGED <<unique_gs, futures, fs>>
           ELSE /\ unique_gs' = unique_gs_of(organic[2], sem_results)
                /\ futures' = <<>>
                /\ pc' = "enrich"
                /\ UNCHANGED <<gs_results, result>>
    /\ UNCHANGED <<sem_resp, sem_results, enriched_results, fs, hvars, gvars>>

\* line 63: executor.map submits the tasks one at a time, in the order of
\* unique_gs; the workers run while it does.  futures holds the tasks
\* submitted so far
all_submitted == Len(futures) = Len(unique_gs)
SubmitTask ==
    /\ pc = "enrich"
    /\ ~all_submitted
    /\ futures' = Append(futures, PendingFuture)
    /\ UNCHANGED <<pc, sem_resp, sem_results, gs_resp, unique_gs, enriched_results,
                   gs_results, result, fs, hvars, gvars>>

\* a free worker thread takes the oldest work item off the queue
\* (work_queue.get); the future stays PENDING until the item is run
TakeTask(i) ==
    /\ pc \in InPool
    /\ futures[i].queued
    /\ \A j \in 1..(i - 1) : ~futures[j].queued
    /\ worker_free(futures, pool_size)
    /\ futures' = [futures EXCEPT ![i].queued = FALSE]
    /\ UNCHANGED <<pc, sem_resp, sem_results, gs_resp, unique_gs, enriched_results,
                   gs_results, result, fs, hvars, gvars>>

\* the worker runs the item it holds: the future becomes RUNNING and the
\* task starts to sleep (line 30)
StartTask(i) ==
    /\ pc \in InPool
    /\ futures[i].state = "pending"
    /\ ~futures[i].queued
    /\ futures' = [futures EXCEPT ![i].state = "sleeping"]
    /\ UNCHANGED <<pc, sem_resp, sem_results, gs_resp, unique_gs, enriched_results,
                   gs_results, result, fs, hvars, gvars>>

\* lines 30-32: the sleep is over and the lookup request is sent
IssueLookup(i) ==
    /\ pc \in InPool
    /\ futures[i].state = "sleeping"
    /\ futures' = [futures EXCEPT ![i].state = "lookup"]
    /\ UNCHANGED <<pc, sem_resp, sem_results, gs_resp, unique_gs, enriched_results,
                   gs_results, result, fs, hvars, gvars>>

\* lines 32-45: the lookup returns and the task ends
LookupReturns(i, resp) ==
    /\ pc \in InPool
    /\ lookup_answerable(futures, i)
    /\ LET out == enrich_with_semantic_scholar(unique_gs[i], resp)
       IN  futures' = [futures EXCEPT ![i] =
               [state   |-> IF out.raised THEN "raised" ELSE "finished",
                queued  |-> FALSE,
                lookup  |-> resp,
                result  |-> IF out.raised THEN <<>> ELSE <<out.value>>,
                done_at |-> Cardinality(Resolved(futures)) + 1]]
    /\ UNCHANGED <<pc, sem_resp, sem_results, gs_resp, unique_gs, enriched_results,
                   gs_results, result, fs, hvars, gvars>>

\* line 63-64: every future has a result; list(executor.map(...)) is returned
CollectResults ==
    /\ pc = "enrich"
    /\ all_submitted
    /\ \A i \in 1..Len(futures) : futures[i].state = "finished"
    /\ enriched_results' = map_results(futures)
    /\ FinishSearch(Return(enriched_results'))
    /\ UNCHANGED <<sem_resp, sem_results, gs_resp, unique_gs, futures, fs, hvars, gvars>>

\* the futures after the i-th, the last submitted first: what is left of the
\* result iterator's reversed list when it has popped the i-th future
later_futures(n, i) == [k \in 1..(n - i) |-> n + 1 - k]

\* line 63: the result iterator reaches a future that raised; its finally
\* clause starts to cancel the futures it has not reached
MapRaises ==
    /\ pc = "enrich"
    /\ all_submitted
    /\ \E i \in 1..Len(futures) :
          /\ futures[i].state = "raised"
          /\ \A j \in 1..(i - 1) : futures[j].state = "finished"
          /\ fs' = later_futures(Len(futures), i)
    /\ pc' = "cancel"
    /\ UNCHANGED <<sem_resp, sem_results, gs_resp, unique_gs, futures, enriched_results,
                   gs_results, result, hvars, gvars>>

\* line 63: future.cancel() on the next future of the iterator's list; it
\* cancels a future that is still PENDING, in the queue or in a worker's
\* hands, and does nothing to one that runs or is done
CancelNext ==
    /\ pc = "cancel"
    /\ fs # <<>>
    /\ futures' = IF futures[Head(fs)].state = "pending"
                  THEN [futures EXCEPT ![Head(fs)].state = "cancelled"]
                  ELSE futures
    /\ fs' = Tail(fs)
    /\ UNCHANGED <<pc, sem_resp, sem_results, gs_resp, unique_gs,
                   enriched_results, gs_results, result, hvars, gvars>>

\* line 63: the exception leaves the result iterator and reaches the end
\* of the with block
LeaveWith ==
    /\ pc = "cancel"
    /\ fs = <<>>
    /\ pc' = "shutdown"
    /\ UNCHANGED <<sem_resp, sem_results, gs_resp, unique_gs, futures, enriched_results,
                   gs_results, result, fs, hvars, gvars>>

\* line 62: leaving the with block waits for the worker threads; then the
\* exception reaches get_googlescholar_results
ShutdownRaises ==
    /\ pc = "shutdown"
    /\ shutdown_waits(futures)
    /\ FinishSearch(Raise)
    /\ UNCHANGED <<sem_resp, sem_results, gs_resp, unique_gs, futures, enriched_results, fs, hvars, gvars>>

Next ==
    \/ ImportModules
    \/ \E resp \in PrimaryResponsesTo(args.max_results) : PrimaryReturns(resp)
    \/ \E resp \in SecondaryResponsesTo(args.max_results) : SecondaryReturns(resp)
    \/ SubmitTask
    \/ \E i \in 1..Len(futures) : TakeTask(i)
    \/ \E i \in 1..Len(futures) : StartTask(i)
    \/ \E i \in 1..Len(futures) : IssueLookup(i)
    \/ \E i \in 1..Len(futures), resp \in LookupResponses : LookupReturns(i, resp)
    \/ CollectResults
    \/ MapRaises
    \/ CancelNext
    \/ LeaveWith
    \/ ShutdownRaises

Init == IdleHarness /\ InitPipeline /\ IdlePaged

Spec == Init /\ [][Next]_vars

(***************************************************************************)
(* search_papers when the primary source answers with a paper whose title  *)
(* is long enough to be within 0.9 of a different title                    *)
(***************************************************************************)
LongTitleResponse ==
    [kind |-> "ok", data |-> <<SemPaper(Str(T_L3), OneAuthor, Str(<<"v">>))>>]

InitLongTitles ==
    /\ fn = "search_papers"
    /\ args = [max_results |-> DefaultMaxResults]
    /\ called = FALSE
    /\ environ = ConfiguredEnviron
    /\ dotenv_file = NoDotenv
    /\ ret = <<>>
    /\ InitPipeline
    /\ IdlePaged

NextLongTitles ==
    \/ ImportModules
    \/ PrimaryReturns(LongTitleResponse)
    \/ \E resp \in SecondaryResponses : SecondaryReturns(resp)
    \/ SubmitTask
    \/ \E i \in 1..Len(futures) : TakeTask(i)
    \/ \E i \in 1..Len(futures) : StartTask(i)
    \/ \E i \in 1..Len(futures) : IssueLookup(i)
    \/ \E i \in 1..Len(futures), resp \in LookupResponses : LookupReturns(i, resp)
    \/ CollectResults
    \/ MapRaises
    \/ CancelNext
    \/ LeaveWith
    \/ ShutdownRaises

SpecLongTitles == InitLongTitles /\ [][NextLongTitles]_vars

(***************************************************************************)
(* similar(a, b) called on two strings                                     *)
(***************************************************************************)
SimilarStrings == StringsOver(Chars, MaxLen)

InitSimilar ==
    /\ fn = "similar"
    /\ args \in [a : SimilarStrings, b : SimilarStrings]
    /\ called = FALSE
    /\ environ = ConfiguredEnviron
    /\ dotenv_file = NoDotenv
    /\ ret = [num |-> 0, den |-> 1]
    /\ IdlePipeline
    /\ IdlePaged

CallSimilar ==
    /\ fn = "similar"
    /\ ~called
    /\ called' = TRUE
    /\ ret' = similar(Str(args.a), Str(args.b))
    /\ UNCHANGED <<fn, args, environ, dotenv_file, pvars, gvars>>

SpecSimilar == InitSimilar /\ [][CallSimilar]_vars

(***************************************************************************)
(* is_duplicate(gs_title, sem_results, threshold) called on a title and a  *)
(* list of records with str titles                                         *)
(***************************************************************************)
T_ac == <<"a", "c">>
T_AB == <<"A", "B">>

DupTitles == {<<>>, T_ab, T_AB, T_ac, T_c, T_L1, T_L2}

Half == [num |-> 1, den |-> 2]
Thresholds == {DefaultThreshold, Half}

DupRecord(t) ==
    [title |-> Str(t), url |-> EmptyStr, year |-> EmptyStr, venue |-> EmptyStr,
     authors |-> EmptyStr, citations |-> EmptyStr, abstract |-> EmptyStr]

InitDup ==
    /\ fn = "is_duplicate"
    /\ args \in [gs_title : DupTitles,
                 sem_results : SeqsUpTo({DupRecord(t) : t \in DupTitles}, MaxRecs),
                 threshold : Thresholds]
    /\ called = FALSE
    /\ environ = ConfiguredEnviron
    /\ dotenv_file = NoDotenv
    /\ ret = FALSE
    /\ IdlePipeline
    /\ IdlePaged

CallIsDuplicate ==
    /\ fn = "is_duplicate"
    /\ ~called
    /\ called' = TRUE
    /\ ret' = is_duplicate(Str(args.gs_title), args.sem_results, args.threshold)
    /\ UNCHANGED <<fn, args, environ, dotenv_file, pvars, gvars>>

SpecDup == InitDup /\ [][CallIsDuplicate]_vars

(***************************************************************************)
(* SearchArxiv.py                                                          *)
(* A response is [kind, status, entries]: kind "transport_error"           *)
(* (requests.get raises), "bad_xml" (ET.fromstring raises) or "ok" with    *)
(* the Atom entries; the title and id of an entry are Missing (no such     *)
(* element), None (an element without text) or a str.                      *)
(***************************************************************************)
\* str.strip() removes whitespace; of Python's whitespace characters the
\* titles here hold the space, tab, newline, carriage return and form feed
Whitespace == {" ", "\t", "\n", "\r", "\f"}

RECURSIVE lstrip(_)
lstrip(s) == IF Len(s) > 0 /\ s[1] \in Whitespace THEN lstrip(Tail(s)) ELSE s

RECURSIVE rstrip(_)
rstrip(s) ==
    IF Len(s) > 0 /\ s[Len(s)] \in Whitespace THEN rstrip(SubSeq(s, 1, Len(s) - 1)) ELSE s

strip(s) == rstrip(lstrip(s))

\* entry.find(...).text and .strip() raise AttributeError on a missing
\* element or an element without text
arxiv_entry_raises(entry) == ~IsStr(entry.title) \/ ~IsStr(entry.id)

arxiv_entry_record(entry) ==
    [title |-> Str(strip(entry.title[2])), link |-> Str(strip(entry.id[2]))]

HttpOk == 200

\* no try/except: every exception escapes
get_arxiv_results(response) ==
    IF response.kind = "transport_error" THEN Raise
    ELSE IF response.status # HttpOk THEN Raise
    ELSE IF response.kind = "bad_xml" THEN Raise
    ELSE IF \E k \in 1..Len(response.entries) : arxiv_entry_raises(response.entries[k])
    THEN Raise
    ELSE Return([k \in 1..Len(response.entries) |-> arxiv_entry_record(response.entries[k])])

ArxivEntries ==
    {[title |-> Str(<<" ", "a", " ">>), id |-> Str(<<"i">>)],
     [title |-> Missing, id |-> Str(<<"i">>)],
     [title |-> None, id |-> Str(<<"i">>)]}

ArxivResponses ==
    {[kind |-> "transport_error", status |-> 0, entries |-> <<>>],
     [kind |-> "bad_xml", status |-> HttpOk, entries |-> <<>>],
     [kind |-> "ok", status |-> 500, entries |-> <<>>]}
    \cup {[kind |-> "ok", status |-> HttpOk, entries |-> e] : e \in SeqsUpTo(ArxivEntries, MaxPapers)}

(***************************************************************************)
(* lit_review_engine.py (top level): googlescholar_results(params)         *)
(* A page is [kind, organic_results, serpapi_pagination]: kind             *)
(* "transport_error" (search.get_dict() raises) or "ok".                   *)
(***************************************************************************)
EmptyDict == Dict(<<>>)
CountLimit == 10

Digits == <<"0", "1", "2", "3", "4", "5", "6", "7", "8", "9">>
IsDigits(s) == Len(s) > 0 /\ \A k \in 1..Len(s) : \E d \in 1..10 : Digits[d] = s[k]
DigitValue(c) == (CHOOSE d \in 1..10 : Digits[d] = c) - 1

RECURSIVE ParseDigits(_)
ParseDigits(s) ==
    IF Len(s) = 0 THEN 0
    ELSE 10 * ParseDigits(SubSeq(s, 1, Len(s) - 1)) + DigitValue(s[Len(s)])

\* int(x): an int is kept; a str is read as a decimal literal: white space
\* around it is dropped, a sign may lead, and the digits may be separated
\* by single underscores; anything else raises
IntSpace == {" ", "\t", "\n", "\r", "\f"}
IsDigit(c) == \E d \in 1..10 : Digits[d] = c

RECURSIVE int_lstrip(_)
int_lstrip(s) == IF Len(s) > 0 /\ s[1] \in IntSpace THEN int_lstrip(Tail(s)) ELSE s

RECURSIVE int_rstrip(_)
int_rstrip(s) ==
    IF Len(s) > 0 /\ s[Len(s)] \in IntSpace
    THEN int_rstrip(SubSeq(s, 1, Len(s) - 1)) ELSE s

int_sign(s) == IF Len(s) > 0 /\ s[1] \in {"+", "-"} THEN Tail(s) ELSE s
int_body(s) == int_sign(int_rstrip(int_lstrip(s)))

int_literal(s) ==
    LET b == int_body(s)
    IN  /\ Len(b) > 0
        /\ \A k \in 1..Len(b) :
              \/ IsDigit(b[k])
              \/ b[k] = "_" /\ 1 < k /\ k < Len(b) /\ IsDigit(b[k - 1]) /\ IsDigit(b[k + 1])

int_raises(v) ==
    IF v[1] = "int" THEN FALSE
    ELSE IF IsStr(v) THEN ~int_literal(v[2])
    ELSE TRUE

int_value(v) ==
    IF v[1] = "int" THEN v[2]
    ELSE LET t == int_lstrip(v[2])
             n == ParseDigits(SelectSeq(int_body(v[2]), IsDigit))
         IN  IF Len(t) > 0 /\ t[1] = "-" THEN 0 - n ELSE n

\* try: int(x)  except: None
int_or_none(v) == IF int_raises(v) THEN None ELSE PyInt(int_value(v))

\* d.get(key) without default
GetOrNone(d, key) == IF d[key] = Missing THEN None ELSE d[key]

\* result["resources"][0][key] inside try/except
resource_field(res, key) ==
    IF IsList(res.resources) /\ Len(res.resources[2]) > 0 /\ res.resources[2][1][key] # Missing
    THEN res.resources[2][1][key]
    ELSE None

\* result["inline_links"][group]["total"] inside try/except, through int()
inline_total(res, group) ==
    IF IsDict(res.inline_links) /\ IsDict(DictGet(res.inline_links, group))
       /\ DictGet(DictGet(res.inline_links, group), "total") # Missing
    THEN int_or_none(DictGet(DictGet(res.inline_links, group), "total"))
    ELSE None

\* result.get("inline_links", {}).get(group, {}).get(key, {}): the default
\* {} stands in for an absent key only; on a value that is there and is no
\* dict the next .get raises AttributeError
inline_field_raises(res, group) ==
    \/ res.inline_links # Missing /\ ~IsDict(res.inline_links)
    \/ /\ IsDict(res.inline_links)
       /\ DictGet(res.inline_links, group) # Missing
       /\ ~IsDict(DictGet(res.inline_links, group))

inline_field(res, group, key) ==
    IF IsDict(res.inline_links) /\ IsDict(DictGet(res.inline_links, group))
       /\ DictGet(DictGet(res.inline_links, group), key) # Missing
    THEN DictGet(DictGet(res.inline_links, group), key)
    ELSE EmptyDict

\* lines 26-29 and 61-62: the keys read with [] must be there and
\* position + 1 needs a number; lines 50-58: the .get chains
paged_result_raises(res, page) ==
    \/ res.position = Missing
    \/ res.title = Missing
    \/ ~IsDict(res.publication_info)
    \/ DictGet(res.publication_info, "summary") = Missing
    \/ res.result_id = Missing
    \/ inline_field_raises(res, "cited_by")
    \/ inline_field_raises(res, "versions")
    \/ ~IsDict(page.serpapi_pagination)
    \/ DictGet(page.serpapi_pagination, "current") = Missing
    \/ res.position[1] # "int"

paged_result_record(res, page) ==
    [page_number              |-> page.serpapi_pagination[2].current,
     position                 |-> PyInt(res.position[2] + 1),
     result_type              |-> GetOrNone(res, "type"),
     title                    |-> res.title,
     link                     |-> GetOrNone(res, "link"),
     result_id                |-> res.result_id,
     publication_info_summary |-> res.publication_info[2].summary,
     snippet                  |-> GetOrNone(res, "snippet"),
     cited_by_count           |-> inline_total(res, "cited_by"),
     cited_by_link            |-> inline_field(res, "cited_by", "link"),
     cited_by_id              |-> inline_field(res, "cited_by", "cites_id"),
     total_versions           |-> inline_total(res, "versions"),
     all_versions_link        |-> inline_field(res, "versions", "link"),
     all_versions_id          |-> inline_field(res, "versions", "cluster_id"),
     file_format              |-> resource_field(res, "file_format"),
     file_title               |-> resource_field(res, "title"),
     file_link                |-> resource_field(res, "link")]

\* the results that the for loop of line 25 handles: the elements of a
\* list; an empty str or dict gives no turn of the loop
page_results(page) ==
    IF IsList(page.organic_results) THEN page.organic_results[2] ELSE <<>>

\* line 21 or the for loop over one page (lines 25-79) raises: get_dict()
\* fails, the key is absent (KeyError), the value cannot be iterated, it is
\* a str or a dict that is not empty (a character or a key cannot be
\* indexed by "position"), or a result raises
page_raises(page) ==
    \/ page.kind = "transport_error"
    \/ ~IsIterable(page.organic_results)
    \/ ~IsList(page.organic_results) /\ IterLen(page.organic_results) > 0
    \/ \E k \in 1..Len(page_results(page)) : paged_result_raises(page_results(page)[k], page)

page_records(page) ==
    [k \in 1..Len(page_results(page)) |-> paged_result_record(page_results(page)[k], page)]

NextKey == <<"n", "e", "x", "t">>

\* line 81: "next" in results.get("serpapi_pagination", {}): a key of a
\* dict, a substring of a str, an element of a list
has_next(page) ==
    LET pg == page.serpapi_pagination
    IN  IF IsDict(pg) THEN DictGet(pg, "next") # Missing
        ELSE IF IsStr(pg)
        THEN \E i \in 1..Len(pg[2]) :
                i + 3 <= Len(pg[2]) /\ SubSeq(pg[2], i, i + 3) = NextKey
        ELSE IF IsList(pg) THEN \E i \in 1..Len(pg[2]) : pg[2][i] = Str(NextKey)
        ELSE FALSE

\* urlsplit(url): a str is split (the links of the model hold no "[" or
\* "]", which an IPv6 host needs); None and 0 are read as ""; any other
\* number has no .decode, and a list or a dict cannot be hashed
urlsplit_raises(url) ==
    IF IsStr(url) \/ url = None THEN FALSE
    ELSE IF url[1] = "int" THEN url[2] # 0
    ELSE TRUE

\* lines 81-82 raise: the pagination is there and is no container
\* (TypeError), or "next" is in it and count < 10 and then it cannot be
\* indexed by "next", or urlsplit raises on the link
pagination_raises(page, count) ==
    LET pg == page.serpapi_pagination
    IN  \/ pg # Missing /\ ~IsIterable(pg)
        \/ /\ has_next(page)
           /\ count < CountLimit
           /\ \/ ~IsDict(pg)
              \/ urlsplit_raises(DictGet(pg, "next"))

FullResult(pos) ==
    [position |-> PyInt(pos), title |-> Str(T_ab),
     publication_info |-> Dict([summary |-> Str(<<"s">>)]),
     result_id |-> Str(<<"r">>), link |-> Str(<<"l">>), type |-> Missing,
     snippet |-> Str(<<"t">>),
     resources |-> List(<<[title |-> Str(<<"f">>), link |-> Str(<<"g">>),
                           file_format |-> Str(<<"P">>)]>>),
     inline_links |-> Dict([cited_by |-> Dict([total |-> PyInt(3), cites_id |-> Str(<<"4">>),
                                               link |-> Str(<<"c">>)]),
                            versions |-> Dict([total |-> Str(<<"1", "2">>),
                                               link |-> Str(<<"d">>),
                                               cluster_id |-> Str(<<"5">>)])])]

PlainResult(pos) ==
    [position |-> PyInt(pos), title |-> Str(T_c),
     publication_info |-> Dict([summary |-> Str(<<"s">>)]),
     result_id |-> Str(<<"r">>), link |-> Missing, type |-> Missing, snippet |-> Missing,
     resources |-> Missing, inline_links |-> Missing]

UntitledResult(pos) == [PlainResult(pos) EXCEPT !.title = Missing]

NullLinksResult(pos) == [PlainResult(pos) EXCEPT !.inline_links = None]

\* the result lists of a page: up to MaxOrganic full results, one plain
\* result, or a result without a title after a full one
PageResultLists ==
    {[k \in 1..n |-> FullResult(k - 1)] : n \in 0..MaxOrganic}
    \cup {<<PlainResult(0)>>, <<FullResult(0), UntitledResult(1)>>, <<NullLinksResult(0)>>}

Paginations(current) ==
    {Missing, None,
     Dict([current |-> PyInt(current), next |-> Missing]),
     Dict([current |-> PyInt(current), next |-> Str(<<"u">>)])}

PageResponses(current) ==
    {[kind |-> "transport_error", organic_results |-> Missing, serpapi_pagination |-> Missing],
     [kind |-> "ok", organic_results |-> Missing, serpapi_pagination |-> Missing]}
    \cup {[kind |-> "ok", organic_results |-> List(rs), serpapi_pagination |-> pg] :
            rs \in PageResultLists, pg \in Paginations(current)}

\* lines 20-84: one turn of the while loop on the page that get_dict()
\* returns; line 86 when the loop ends
FetchPage(page) ==
    /\ g_pc = "fetch"
    /\ g_fetches < MaxFetches
    /\ g_fetches' = g_fetches + 1
    /\ IF \/ page_raises(page)
          \/ pagination_raises(page, g_count + Len(page_results(page)))
       THEN /\ g_pc' = "raised"
            /\ UNCHANGED <<g_data, g_count, g_next>>
       ELSE /\ g_data' = g_data \o page_records(page)
            /\ g_count' = g_count + Len(page_results(page))
            /\ g_next' = has_next(page)
            /\ g_pc' = IF has_next(page) /\ g_count' < CountLimit THEN "fetch" ELSE "returned"
    /\ UNCHANGED <<hvars, pvars>>

(***************************************************************************)
(* Each source adapter called on its own                                   *)
(***************************************************************************)
Adapters ==
    {"get_semantic_scholar_results", "get_arxiv_results", "googlescholar_results",
     "get_googlescholar_results"}

\* the number of records the caller of googlescholar_results wants; params
\* is handed to GoogleSearch unread and the function has no other parameter
RequestedMaxima == {MaxOrganic, CountLimit + 2}

\* get_googlescholar_results is called with a list of primary records, or
\* without one: sem_results is then None and the variable is left empty
GivenSemResults ==
    {<<>>, <<sem_paper_record(SemPaper(Str(T_ab), OneAuthor, Str(<<"v">>)))>>}

InitAdapters ==
    /\ fn \in Adapters
    /\ IF fn = "googlescholar_results"
       THEN args \in [max_results : RequestedMaxima]
       ELSE IF fn = "get_googlescholar_results"
       THEN args \in [sem_results_given : BOOLEAN]
       ELSE args = <<>>
    /\ called = FALSE
    /\ environ = ConfiguredEnviron
    /\ dotenv_file = NoDotenv
    /\ ret = Return(<<>>)
    /\ IF fn = "get_googlescholar_results"
       THEN /\ pc = "secondary"
            /\ sem_results \in IF args.sem_results_given THEN GivenSemResults ELSE {<<>>}
       ELSE /\ pc = "idle"
            /\ sem_results = <<>>
    /\ sem_resp = NoResponse
    /\ gs_resp = NoGsResponse
    /\ unique_gs = <<>>
    /\ futures = <<>>
    /\ fs = <<>>
    /\ enriched_results = <<>>
    /\ gs_results = <<>>
    /\ result = Return(<<>>)
    /\ g_pc = IF fn = "googlescholar_results" THEN "fetch" ELSE "idle"
    /\ g_data = <<>>
    /\ g_count = 0
    /\ g_fetches = 0
    /\ g_next = FALSE

CallSemanticScholar(resp) ==
    /\ fn = "get_semantic_scholar_results"
    /\ ~called
    /\ called' = TRUE
    /\ args' = resp
    /\ ret' = get_semantic_scholar_results(resp)
    /\ UNCHANGED <<fn, environ, dotenv_file, pvars, gvars>>

CallArxiv(resp) ==
    /\ fn = "get_arxiv_results"
    /\ ~called
    /\ called' = TRUE
    /\ args' = resp
    /\ ret' = get_arxiv_results(resp)
    /\ UNCHANGED <<fn, environ, dotenv_file, pvars, gvars>>

NextAdapters ==
    \/ \E resp \in PrimaryResponses : CallSemanticScholar(resp)
    \/ \E resp \in ArxivResponses : CallArxiv(resp)
    \/ \E page \in PageResponses(g_fetches + 1) : FetchPage(page)
    \/ \E resp \in SecondaryResponses : SecondaryReturns(resp)
    \/ SubmitTask
    \/ \E i \in 1..Len(futures) : TakeTask(i)
    \/ \E i \in 1..Len(futures) : StartTask(i)
    \/ \E i \in 1..Len(futures) : IssueLookup(i)
    \/ \E i \in 1..Len(futures), resp \in LookupResponses : LookupReturns(i, resp)
    \/ CollectResults
    \/ MapRaises
    \/ CancelNext
    \/ LeaveWith
    \/ ShutdownRaises

SpecAdapters == InitAdapters /\ [][NextAdapters]_vars

(***************************************************************************)
(* enrich_gs_results_parallel(gs_raw_results, sem_results, max_workers)    *)
(* called with more results than workers                                   *)
(***************************************************************************)
\* n results with n different titles: "c", "cc", ...
PoolResults(n) == [k \in 1..n |-> GsBare(Str([j \in 1..k |-> "c"]))]

InitPool ==
    /\ fn = "enrich_gs_results_parallel"
    /\ args \in [max_workers : 1..MaxOrganic, gs_raw_results : {PoolResults(MaxOrganic + 1)}]
    /\ called = FALSE
    /\ environ = ConfiguredEnviron
    /\ dotenv_file = NoDotenv
    /\ ret = <<>>
    /\ pc = "submit"
    /\ sem_results \in GivenSemResults
    /\ sem_resp = NoResponse
    /\ gs_resp = NoGsResponse
    /\ unique_gs = <<>>
    /\ futures = <<>>
    /\ fs = <<>>
    /\ enriched_results = <<>>
    /\ gs_results = <<>>
    /\ result = Return(<<>>)
    /\ IdlePaged

\* lines 57-62: the duplicates are filtered out and the pool is created
FilterDuplicates ==
    /\ pc = "submit"
    /\ IF dedup_raises(args.gs_raw_results, sem_results)
       THEN /\ FinishSearch(Raise)
            /\ UNCHANGED <<unique_gs, futures, fs>>
       ELSE /\ unique_gs' = unique_gs_of(args.gs_raw_results, sem_results)
            /\ futures' = <<>>
            /\ pc' = "enrich"
            /\ UNCHANGED <<gs_results, result>>
    /\ UNCHANGED <<sem_resp, sem_results, gs_resp, enriched_results, fs, hvars, gvars>>

NextPool ==
    \/ FilterDuplicates
    \/ SubmitTask
    \/ \E i \in 1..Len(futures) : TakeTask(i)
    \/ \E i \in 1..Len(futures) : StartTask(i)
    \/ \E i \in 1..Len(futures) : IssueLookup(i)
    \/ \E i \in 1..Len(futures), resp \in LookupResponses : LookupReturns(i, resp)
    \/ CollectResults
    \/ MapRaises
    \/ CancelNext
    \/ LeaveWith
    \/ ShutdownRaises

SpecPool == InitPool /\ [][NextPool]_vars

(***************************************************************************)
(* A batch of MaxOrganic + 1 results: enrich_gs_results_parallel called    *)
(* with a pool smaller than the batch, and search_papers (with the default *)
(* pool) when Semantic Scholar answers one paper and Google Scholar the    *)
(* batch                                                                   *)
(***************************************************************************)
BatchPrimaryResponse ==
    [kind |-> "ok", data |-> <<SemPaper(Str(T_ab), OneAuthor, Str(<<"v">>))>>]

BatchSecondaryResponse ==
    [kind |-> "ok", organic_results |-> List(PoolResults(MaxOrganic + 1))]

InitBatch ==
    \/ InitPool
    \/ /\ fn = "search_papers"
       /\ args = [max_results |-> DefaultMaxResults]
       /\ called = FALSE
       /\ environ = ConfiguredEnviron
       /\ dotenv_file = NoDotenv
       /\ ret = <<>>
       /\ InitPipeline
       /\ IdlePaged

NextBatch ==
    \/ ImportModules
    \/ PrimaryReturns(BatchPrimaryResponse)
    \/ SecondaryReturns(BatchSecondaryResponse)
    \/ FilterDuplicates
    \/ SubmitTask
    \/ \E i \in 1..Len(futures) : TakeTask(i)
    \/ \E i \in 1..Len(futures) : StartTask(i)
    \/ \E i \in 1..Len(futures) : IssueLookup(i)
    \/ \E i \in 1..Len(futures), resp \in LookupResponses : LookupReturns(i, resp)
    \/ CollectResults
    \/ MapRaises
    \/ CancelNext
    \/ LeaveWith
    \/ ShutdownRaises

SpecBatch == InitBatch /\ [][NextBatch]_vars

(***************************************************************************)
(* enrich_gs_results_parallel when one lookup may never return: the        *)
(* requests.get of get_semantic_scholar_results has no timeout.  The batch *)
(* is two results larger than the pool, so that tasks wait in the queue    *)
(* while the workers are busy.                                             *)
(***************************************************************************)
HungTasks == MaxOrganic + 2

InitHung ==
    /\ fn = "enrich_gs_results_parallel"
    /\ args = [max_workers |-> MaxOrganic, gs_raw_results |-> PoolResults(HungTasks)]
    /\ called = FALSE
    /\ environ = ConfiguredEnviron
    /\ dotenv_file = NoDotenv
    /\ ret = <<>>
    /\ pc = "submit"
    /\ sem_results = <<>>
    /\ sem_resp = NoResponse
    /\ gs_resp = NoGsResponse
    /\ unique_gs = <<>>
    /\ futures = <<>>
    /\ fs = <<>>
    /\ enriched_results = <<>>
    /\ gs_results = <<>>
    /\ result = Return(<<>>)
    /\ IdlePaged

\* line 32: the request of task i is one that never returns; no other
\* task's request is
LookupHangs(i) ==
    /\ pc \in InPool
    /\ futures[i].state = "lookup"
    /\ Hung(futures) = {}
    /\ futures' = [futures EXCEPT ![i].state = "hung"]
    /\ UNCHANGED <<pc, sem_resp, sem_results, gs_resp, unique_gs, enriched_results,
                   gs_results, result, fs, hvars, gvars>>

NextHung ==
    \/ FilterDuplicates
    \/ SubmitTask
    \/ \E i \in 1..Len(futures) : TakeTask(i)
    \/ \E i \in 1..Len(futures) : StartTask(i)
    \/ \E i \in 1..Len(futures) : IssueLookup(i)
    \/ \E i \in 1..Len(futures), resp \in LookupResponses : LookupReturns(i, resp)
    \/ \E i \in 1..Len(futures) : LookupHangs(i)
    \/ CollectResults
    \/ MapRaises
    \/ CancelNext
    \/ LeaveWith
    \/ ShutdownRaises

\* the calling thread goes on: executor.map submits every task, its result
\* iterator takes the results, cancels after a raise and the with block is
\* left
FairCaller ==
    /\ WF_vars(FilterDuplicates)
    /\ WF_vars(SubmitTask)
    /\ WF_vars(CollectResults)
    /\ WF_vars(MapRaises)
    /\ WF_vars(CancelNext)
    /\ WF_vars(LeaveWith)
    /\ WF_vars(ShutdownRaises)

\* the worker threads go on: a free worker takes the oldest queued item and
\* runs it, a sleep ends and a request that is not the hung one is answered
FairTasks ==
    \A i \in 1..HungTasks :
        /\ WF_vars(i <= Len(futures) /\ TakeTask(i))
        /\ WF_vars(i <= Len(futures) /\ StartTask(i))
        /\ WF_vars(i <= Len(futures) /\ IssueLookup(i))
        /\ WF_vars(i <= Len(futures) /\ \E resp \in LookupResponses : LookupReturns(i, resp))

SpecHung == InitHung /\ [][NextHung]_vars /\ FairCaller /\ FairTasks

(***************************************************************************)
(* Properties                                                              *)
(***************************************************************************)
SimilarCalled == fn = "similar" /\ called
DupCalled == fn = "is_duplicate" /\ called

\* C8: is_duplicate(t, records, threshold) returns True exactly when some
\* record r has similar(t, r.title) >= threshold (inclusive), and so
\* returns False on the empty list.
C8_IsDuplicateExact ==
    DupCalled =>
        /\ ret = (\E k \in 1..Len(args.sem_results) :
                    LET r == similar(Str(args.gs_title), args.sem_results[k].title)
                    IN  r.num * args.threshold.den >= args.threshold.num * r.den)
        /\ (args.sem_results = <<>> => ret = FALSE)

\* a duplicate only because a record sits exactly at the default threshold
C8_Witness ==
    /\ DupCalled
    /\ ret = TRUE
    /\ args.threshold = DefaultThreshold
    /\ \A k \in 1..Len(args.sem_results) :
          RatEQ(similar(Str(args.gs_title), args.sem_results[k].title), DefaultThreshold)
    /\ Len(args.sem_results) = 2

\* C9 (as claimed): similar(a, b) = similar(b, a) for all strings a, b.
C9_Symmetric ==
    SimilarCalled => RatEQ(ret, similar(Str(args.b), Str(args.a)))

\* C10: similar(a, a) = 1.0 for non-empty a, similar(a, b) equals
\* similar(lower(a), lower(b)), and titles that differ only in case have
\* similarity 1.0.
C10_ReflexiveCaseInsensitive ==
    SimilarCalled =>
        /\ RatEQ(ret, similar(Str(lower(args.a)), Str(lower(args.b))))
        /\ (Len(args.a) > 0 /\ lower(args.a) = lower(args.b) => RatEQ(ret, One))

C10_Witness ==
    /\ SimilarCalled
    /\ Len(args.a) = MaxLen
    /\ args.a # args.b
    /\ lower(args.a) = lower(args.b)
    /\ RatEQ(ret, One)

\* ---- search_papers ----
Organic == Get(gs_resp, "organic_results", List(<<>>))

\* the primary source failed: no usable answer to the query
PrimaryFailed ==
    \/ sem_resp.kind \in {"transport_error", "http_error", "bad_shape"}
    \/ \E k \in 1..Len(sem_resp.data) : ~IsList(sem_resp.data[k].authors)

\* the secondary source failed: in the request, in the shape of the answer,
\* in the duplicate check or inside an enrichment task
SecondaryFailed ==
    \/ gs_resp.kind = "transport_error"
    \/ ~IsList(Organic)
    \/ dedup_raises(Organic[2], sem_results)
    \/ \E i \in 1..Len(futures) : futures[i].state = "raised"

\* enrich_gs_results_parallel was called and has returned its list
EnrichReturned ==
    /\ pc = "done"
    /\ gs_resp.kind = "ok"
    /\ IsList(Organic)
    /\ ~dedup_raises(Organic[2], sem_results)
    /\ \A i \in 1..Len(futures) : futures[i].state = "finished"

\* C1: search_papers never raises to its caller, whatever fails in the
\* primary source, the secondary source or an enrichment task; when both
\* sources fail it returns the empty list.
C1_SearchNeverRaises ==
    /\ ~result.raised
    /\ (pc = "done" /\ PrimaryFailed /\ SecondaryFailed => result.value = <<>>)

\* both sources failed, the secondary one inside an enrichment task
C1_Witness ==
    /\ pc = "done"
    /\ PrimaryFailed
    /\ \E i \in 1..Len(futures) : futures[i].state = "raised"
    /\ result = Return(<<>>)

\* C3: whatever the order in which the tasks complete, the list returned by
\* enrich_gs_results_parallel has the length of unique_gs and its i-th
\* element is the enrichment of unique_gs[i].
C3_OrderPreserved ==
    EnrichReturned =>
        /\ Len(enriched_results) = Len(unique_gs)
        /\ \A i \in 1..Len(unique_gs) :
              enriched_results[i]
                  = enrich_with_semantic_scholar(unique_gs[i], futures[i].lookup).value

\* the second task completed before the first and their results differ
C3_Witness ==
    /\ EnrichReturned
    /\ Len(futures) >= 2
    /\ futures[2].done_at < futures[1].done_at
    /\ enriched_results[1] # enriched_results[2]

\* C4 (as claimed): a task that raises does not abort the batch; the batch
\* returns one record per surviving result and the failing task's slot
\* holds the fallback record.
C4_TaskErrorIsolated ==
    (pc = "done" /\ Len(futures) > 0) =>
        /\ Len(gs_results) = Len(unique_gs)
        /\ \A i \in 1..Len(futures) :
              futures[i].state = "raised" => gs_results[i] = fallback_record(unique_gs[i])

\* the organic results that are no duplicate of a primary record
IsDupOfPrimary(res) ==
    \E k \in 1..Len(sem_results) :
        /\ IsStr(Get(res, "title", EmptyStr))
        /\ IsStr(sem_results[k].title)
        /\ RatGE(similar(Get(res, "title", EmptyStr), sem_results[k].title), DefaultThreshold)

Survivors == {k \in 1..Len(Organic[2]) : ~IsDupOfPrimary(Organic[2][k])}

NthOf(S, i) == CHOOSE x \in S : Cardinality({y \in S : y < x}) = i - 1

\* C5: the output of enrich_gs_results_parallel has exactly one record per
\* secondary result whose title is no duplicate of a primary record, in
\* their order, and none for a duplicate.
C5_OnePerNonDuplicate ==
    EnrichReturned =>
        /\ Len(enriched_results) = Cardinality(Survivors)
        /\ Len(unique_gs) = Cardinality(Survivors)
        /\ \A i \in 1..Len(unique_gs) : unique_gs[i] = Organic[2][NthOf(Survivors, i)]

\* one result was filtered out as a duplicate, another one was enriched
C5_Witness ==
    /\ EnrichReturned
    /\ Len(enriched_results) >= 1
    /\ Cardinality(Survivors) < Len(Organic[2])
    /\ Len(sem_results) >= 1

\* the record made of the secondary result's own fields
OwnFields(g) ==
    [title     |-> IF g.title = Missing THEN EmptyStr ELSE g.title,
     url       |-> IF g.link = Missing THEN EmptyStr ELSE g.link,
     year      |-> EmptyStr,
     venue     |-> EmptyStr,
     authors   |-> IF g.publication_info = Missing THEN EmptyStr
                   ELSE IF g.publication_info[2].summary = Missing THEN EmptyStr
                   ELSE g.publication_info[2].summary,
     citations |-> IF g.inline_links = Missing THEN EmptyStr
                   ELSE IF g.inline_links[2].cited_by = Missing THEN EmptyStr
                   ELSE IF g.inline_links[2].cited_by[2].total = Missing THEN EmptyStr
                   ELSE g.inline_links[2].cited_by[2].total,
     abstract  |-> IF g.snippet = Missing THEN EmptyStr ELSE g.snippet]

LookedUp(i) == get_semantic_scholar_results(futures[i].lookup).value

Adopts(i) ==
    /\ Len(LookedUp(i)) > 0
    /\ RatGE(similar(LookedUp(i)[1].title, Get(unique_gs[i], "title", EmptyStr)), AdoptThreshold)

\* C6: the enriched result is the record of the lookup iff the lookup
\* returned a result whose title has similarity >= 0.9 with the secondary
\* title; otherwise it is the record of the secondary result's own fields
\* with year = "" and venue = "".
C6_AdoptIffSimilar ==
    \A i \in 1..Len(futures) :
        futures[i].state = "finished" =>
            futures[i].result[1] = IF Adopts(i) THEN LookedUp(i)[1]
                                   ELSE OwnFields(unique_gs[i])

\* one lookup title exactly at 0.9 was adopted, another lookup result below
\* 0.9 was dropped for the fallback record
C6_Witness ==
    \E i, j \in 1..Len(futures) :
        /\ futures[i].state = "finished"
        /\ Adopts(i)
        /\ RatEQ(similar(LookedUp(i)[1].title, unique_gs[i].title), AdoptThreshold)
        /\ futures[i].result[1] # OwnFields(unique_gs[i])
        /\ futures[j].state = "finished"
        /\ Len(LookedUp(j)) > 0
        /\ ~Adopts(j)
        /\ futures[j].result[1].year = EmptyStr

\* the records of the primary answer, in source order
PrimaryRecords ==
    IF PrimaryFailed THEN <<>>
    ELSE [k \in 1..Len(sem_resp.data) |-> sem_paper_record(sem_resp.data[k])]

\* the primary source has not answered yet
PrimaryPending == {"import", "import_failed", "primary"}

\* C7: the primary source is asked, and has answered, before the secondary
\* one; its results are the deduplication set of the enrichment; and the
\* value returned is the primary results, unchanged and in source order,
\* followed by the enriched secondary results.
C7_PrimaryThenEnriched ==
    /\ (pc \notin PrimaryPending \/ gs_resp # NoGsResponse) => sem_resp # NoResponse
    /\ pc \notin PrimaryPending => sem_results = PrimaryRecords
    /\ \A i \in 1..Len(unique_gs) :
          ~is_duplicate(Get(unique_gs[i], "title", EmptyStr), PrimaryRecords, DefaultThreshold)
    /\ pc = "done" => result.value = PrimaryRecords \o enriched_results

\* primary records followed by an enriched record, one duplicate dropped
C7_Witness ==
    /\ pc = "done"
    /\ Len(PrimaryRecords) >= 1
    /\ Len(enriched_results) >= 1
    /\ Len(unique_gs) < Len(Organic[2])
    /\ result.value = PrimaryRecords \o enriched_results

\* ---- the source adapters ----
SemFailed(resp) ==
    \/ resp.kind \in {"transport_error", "http_error", "bad_shape"}
    \/ \E k \in 1..Len(resp.data) : ~IsList(resp.data[k].authors)

ArxivFailed(resp) ==
    \/ resp.kind \in {"transport_error", "bad_xml"}
    \/ resp.status # 200
    \/ \E k \in 1..Len(resp.entries) :
          ~IsStr(resp.entries[k].title) \/ ~IsStr(resp.entries[k].id)

\* C2 (as claimed): no source adapter throws to its caller; on a transport
\* failure, a non-2xx status or an answer of unexpected shape it returns
\* the empty list.
C2_AdaptersNeverThrow ==
    /\ (fn = "get_semantic_scholar_results" /\ called) =>
          /\ ~ret.raised
          /\ (SemFailed(args) => ret.value = <<>>)
    /\ (fn = "get_arxiv_results" /\ called) =>
          /\ ~ret.raised
          /\ (ArxivFailed(args) => ret.value = <<>>)
    /\ fn = "googlescholar_results" => g_pc # "raised"
    /\ fn = "get_googlescholar_results" =>
          /\ ~result.raised
          /\ (pc = "done" /\ SecondaryFailed => gs_results = <<>>)

\* ---- the shape of the records ----
SevenFields == {"title", "url", "year", "venue", "authors", "citations", "abstract"}

HasSevenFields(rec) == DOMAIN rec = SevenFields

AllRecords(recs, P(_)) == \A k \in 1..Len(recs) : P(recs[k])

\* C11 (as claimed): every record that a source adapter returns has exactly
\* the seven fields title, url, year, venue, authors, citations, abstract.
C11_SevenFields ==
    /\ (fn \in {"get_semantic_scholar_results", "get_arxiv_results"} /\ called /\ ~ret.raised)
          => AllRecords(ret.value, HasSevenFields)
    /\ fn = "googlescholar_results" => AllRecords(g_data, HasSevenFields)
    /\ (fn = "get_googlescholar_results" /\ pc = "done")
          => AllRecords(gs_results, HasSevenFields)

NoNullField(rec) == \A f \in DOMAIN rec : rec[f] # None

\* C12 (as claimed): no field of a record that leaves the Semantic Scholar
\* adapter or the enrichment step is null; a field the source omits or
\* reports as null holds its empty value.
C12_NoNullField ==
    /\ AllRecords(sem_results, NoNullField)
    /\ AllRecords(enriched_results, NoNullField)

HasTitle(rec) == IsStr(rec.title) /\ rec.title # EmptyStr

\* C13 (as claimed): every record of the list that search_papers returns
\* has a non-empty title.
C13_TitleNeverEmpty ==
    (pc = "done" /\ ~result.raised) => AllRecords(result.value, HasTitle)

WellFormedPaper(paper) == IsStr(paper.title) /\ ~sem_paper_raises(paper)

\* C14 (as claimed): when an entry of the primary response is malformed,
\* search_papers still returns the records built from the well-formed
\* entries of that response.
C14_MalformedEntryIsolated ==
    (pc = "done" /\ sem_resp.kind = "ok") =>
        \A k \in 1..Len(sem_resp.data) :
            WellFormedPaper(sem_resp.data[k]) =>
                \E j \in 1..Len(result.value) :
                    result.value[j] = sem_paper_record(sem_resp.data[k])

\* ---- pagination ----
\* C15 (as claimed): googlescholar_results fetches the next page exactly
\* while the source reports one and fewer records than the caller asked
\* for are accumulated: no fetch once that maximum is reached, no return
\* while a next page exists and the count is below it.
C15_PagesUntilRequestedMax ==
    fn = "googlescholar_results" =>
        /\ (g_pc = "fetch" /\ g_fetches > 0) => g_count < args.max_results
        /\ g_pc = "returned" => ~(g_next /\ g_count < args.max_results)

(***************************************************************************)
(* ranking/paper_ranker.py: rank_papers_by_relevance(papers, query)        *)
(* A paper is a record of the seven fields, an absent key marked Missing.  *)
(* The cosine similarities of the embeddings (line 102) and the TF-IDF     *)
(* dot products (line 105) are inputs, one of each per paper.  Scores are  *)
(* Python floats.                                                          *)
(***************************************************************************)
(***************************************************************************)
(* Python float arithmetic (IEEE-754 binary64, round to nearest, ties to   *)
(* even).  A natural number is the sequence of its digits in base 2^15,    *)
(* lowest first, without leading zeros.  A float is [sign, mant, exp] of   *)
(* value (-1)^sign * mant * 2^exp with 2^52 <= mant < 2^53, or FZero.      *)
(* The scores of the ranker stay far from the overflow and subnormal       *)
(* ranges, which are left out, and -0.0 is written as FZero.               *)
(***************************************************************************)
Base == 2 ^ 15

Limb(x, i) == IF i <= Len(x) THEN x[i] ELSE 0

RECURSIVE BNorm(_)
BNorm(x) == IF Len(x) > 0 /\ x[Len(x)] = 0 THEN BNorm(SubSeq(x, 1, Len(x) - 1)) ELSE x

RECURSIVE FromNat(_)
FromNat(n) == IF n = 0 THEN <<>> ELSE <<n % Base>> \o FromNat(n \div Base)

RECURSIVE BAddFrom(_, _, _, _)
BAddFrom(a, b, i, carry) ==
    IF i > Len(a) /\ i > Len(b)
    THEN IF carry = 0 THEN <<>> ELSE <<carry>>
    ELSE LET s == Limb(a, i) + Limb(b, i) + carry
         IN  <<s % Base>> \o BAddFrom(a, b, i + 1, s \div Base)
BAdd(a, b) == BAddFrom(a, b, 1, 0)

\* a - b for a >= b
RECURSIVE BSubFrom(_, _, _, _)
BSubFrom(a, b, i, borrow) ==
    IF i > Len(a) THEN <<>>
    ELSE LET d == a[i] - Limb(b, i) - borrow
         IN  <<(d + Base) % Base>> \o BSubFrom(a, b, i + 1, IF d < 0 THEN 1 ELSE 0)
BSub(a, b) == BNorm(BSubFrom(a, b, 1, 0))

\* -1, 0 or 1 as a is below, equal to or above b
RECURSIVE BCmpFrom(_, _, _)
BCmpFrom(a, b, i) ==
    IF i = 0 THEN 0
    ELSE IF a[i] # b[i] THEN (IF a[i] > b[i] THEN 1 ELSE -1)
    ELSE BCmpFrom(a, b, i - 1)
BCmp(a, b) ==
    IF Len(a) # Len(b) THEN (IF Len(a) > Len(b) THEN 1 ELSE -1)
    ELSE BCmpFrom(a, b, Len(a))

\* a * k for 0 <= k < 2^15
RECURSIVE BMulSmallFrom(_, _, _, _)
BMulSmallFrom(a, k, i, carry) ==
    IF i > Len(a)
    THEN IF carry = 0 THEN <<>> ELSE <<carry>>
    ELSE LET p == a[i] * k + carry
         IN  <<p % Base>> \o BMulSmallFrom(a, k, i + 1, p \div Base)
BMulSmall(a, k) == BNorm(BMulSmallFrom(a, k, 1, 0))

RECURSIVE BMul(_, _)
BMul(a, b) ==
    IF Len(a) = 0 \/ Len(b) = 0 THEN <<>>
    ELSE BAdd(BMulSmall(a, b[1]), BNorm(<<0>> \o BMul(a, Tail(b))))

\* a * 2^k and the integer part of a / 2^k
BShl(a, k) ==
    IF Len(a) = 0 THEN <<>>
    ELSE [i \in 1..(k \div 15) |-> 0] \o BMulSmall(a, 2 ^ (k % 15))
BShr(a, k) ==
    LET rest == IF k \div 15 >= Len(a) THEN <<>> ELSE SubSeq(a, (k \div 15) + 1, Len(a))
        r == k % 15
    IN  BNorm([i \in 1..Len(rest) |->
                 (rest[i] \div (2 ^ r)) + (Limb(rest, i + 1) % (2 ^ r)) * (2 ^ (15 - r))])

RECURSIVE Bits(_)
Bits(n) == IF n = 0 THEN 0 ELSE 1 + Bits(n \div 2)
BitLen(a) == IF Len(a) = 0 THEN 0 ELSE 15 * (Len(a) - 1) + Bits(a[Len(a)])

FZero == [sign |-> 0, mant |-> <<>>, exp |-> 0]

\* the float nearest to (-1)^sign * m * 2^e, ties to the even mantissa;
\* sticky says that the exact value lies above m * 2^e (m of 55 bits or more)
Round(sign, m, e, sticky) ==
    IF Len(m) = 0 THEN FZero
    ELSE LET n == BitLen(m)
         IN  IF n <= 53
             THEN [sign |-> sign, mant |-> BShl(m, 53 - n), exp |-> e - (53 - n)]
             ELSE LET sh == n - 53
                      q == BShr(m, sh)
                      c == BCmp(BSub(m, BShl(q, sh)), BShl(<<1>>, sh - 1))
                      up == c > 0 \/ (c = 0 /\ (sticky \/ q[1] % 2 = 1))
                      r == IF up THEN BAdd(q, <<1>>) ELSE q
                  IN  IF BitLen(r) > 53
                      THEN [sign |-> sign, mant |-> BShr(r, 1), exp |-> e + sh + 1]
                      ELSE [sign |-> sign, mant |-> r, exp |-> e + sh]

\* float(n) of an int n
FromInt(n) == Round(IF n < 0 THEN 1 ELSE 0, FromNat(IF n < 0 THEN 0 - n ELSE n), 0, FALSE)

\* the float of mantissa hi * 2^27 + lo and exponent e
Binary64(hi, lo, e) == Round(0, BAdd(BShl(FromNat(hi), 27), FromNat(lo)), e, FALSE)

FNeg(x) == IF x = FZero THEN x ELSE [x EXCEPT !.sign = 1 - x.sign]

\* x + y
FAdd(x, y) ==
    IF x = FZero THEN y
    ELSE IF y = FZero THEN x
    ELSE LET e == IF x.exp < y.exp THEN x.exp ELSE y.exp
             a == BShl(x.mant, x.exp - e)
             b == BShl(y.mant, y.exp - e)
             c == BCmp(a, b)
         IN  IF x.sign = y.sign THEN Round(x.sign, BAdd(a, b), e, FALSE)
             ELSE IF c = 0 THEN FZero
             ELSE IF c > 0 THEN Round(x.sign, BSub(a, b), e, FALSE)
             ELSE Round(y.sign, BSub(b, a), e, FALSE)

\* x * y
FMul(x, y) ==
    IF x = FZero \/ y = FZero THEN FZero
    ELSE Round((x.sign + y.sign) % 2, BMul(x.mant, y.mant), x.exp + y.exp, FALSE)

\* long division in base 2^15 by a divisor d whose highest digit is 2^14
\* or more.  The next digit of the quotient of r * 2^15 by d is estimated
\* from the highest digits and lowered until d * q <= r * 2^15.
RECURSIVE DivDigit(_, _, _)
DivDigit(r, d, q) == IF BCmp(BMulSmall(d, q), r) > 0 THEN DivDigit(r, d, q - 1) ELSE q

\* k more digits of the quotient by d, from <<quotient, remainder>> with
\* remainder < d
RECURSIVE DivSteps(_, _, _)
DivSteps(qr, d, k) ==
    IF k = 0 THEN qr
    ELSE LET r == BNorm(<<0>> \o qr[2])
             est == (Limb(r, Len(d) + 1) * Base + Limb(r, Len(d))) \div d[Len(d)]
             q == DivDigit(r, d, IF est >= Base THEN Base - 1 ELSE est)
         IN  DivSteps(<<BNorm(<<q>> \o qr[1]), BSub(r, BMulSmall(d, q))>>, d, k - 1)

\* x / y for y # 0: the quotient of the mantissas to 60 binary places
FDiv(x, y) ==
    IF x = FZero THEN FZero
    ELSE LET n == BShl(x.mant, 7)
             d == BShl(y.mant, 7)
             qr == DivSteps(IF BCmp(n, d) >= 0 THEN <<<<1>>, BSub(n, d)>> ELSE <<<<>>, n>>,
                            d, 4)
         IN  Round((x.sign + y.sign) % 2, qr[1], x.exp - y.exp - 60, Len(qr[2]) > 0)

\* -1, 0 or 1 as x is below, equal to or above y
FSign(x) == IF x = FZero THEN 0 ELSE IF x.sign = 1 THEN -1 ELSE 1
FCmpAbs(x, y) ==
    IF x.exp # y.exp THEN (IF x.exp > y.exp THEN 1 ELSE -1) ELSE BCmp(x.mant, y.mant)
FCmp(x, y) ==
    IF FSign(x) # FSign(y) THEN (IF FSign(x) > FSign(y) THEN 1 ELSE -1)
    ELSE IF FSign(x) = 0 THEN 0
    ELSE FSign(x) * FCmpAbs(x, y)
FGE(x, y) == FCmp(x, y) >= 0
FGT(x, y) == FCmp(x, y) > 0
FEQ(x, y) == FCmp(x, y) = 0

\* the float written as the decimal literal n / d, and n / d of two ints
Lit(n, d) == FDiv(FromInt(n), FromInt(d))
FOne == FromInt(1)
FHalf == Lit(1, 2)

\* np.log1p(c / 10) of line 115 for the citation counts 0..30, 40, 50, 100
\* and 1000: the floats that log1p returns
CitationCounts == {0, 3, 10, 30}
log1p_tenth(c) ==
    CASE c = 0 -> FZero
      [] c = 1 -> Binary64(51169263, 20727495, -56)
      [] c = 2 -> Binary64(48941570, 31757942, -55)
      [] c = 3 -> Binary64(35213935, 65124828, -54)
      [] c = 4 -> Binary64(45160539, 18035856, -54)
      [] c = 5 -> Binary64(54420605, 79665228, -54)
      [] c = 6 -> Binary64(63082819, 36120270, -54)
      [] c = 7 -> Binary64(35609859, 18131345, -53)
      [] c = 8 -> Binary64(39445695, 47772100, -53)
      [] c = 9 -> Binary64(43074085, 20805724, -53)
      [] c = 10 -> Binary64(46516319, 117062127, -53)
      [] c = 11 -> Binary64(49790572, 48850542, -53)
      [] c = 12 -> Binary64(52912477, 102875848, -53)
      [] c = 13 -> Binary64(55895585, 7437162, -53)
      [] c = 14 -> Binary64(58751712, 57892748, -53)
      [] c = 15 -> Binary64(61491230, 14737528, -53)
      [] c = 16 -> Binary64(64123287, 82515678, -53)
      [] c = 17 -> Binary64(66655998, 20495850, -53)
      [] c = 18 -> Binary64(34548294, 96594460, -52)
      [] c = 19 -> Binary64(35725764, 3232274, -52)
      [] c = 20 -> Binary64(36863311, 44892938, -52)
      [] c = 21 -> Binary64(37963555, 28814473, -52)
      [] c = 22 -> Binary64(39028864, 101115563, -52)
      [] c = 23 -> Binary64(40061390, 37799799, -52)
      [] c = 24 -> Binary64(41063089, 67596736, -52)
      [] c = 25 -> Binary64(42035749, 112541024, -52)
      [] c = 26 -> Binary64(42981007, 82417114, -52)
      [] c = 27 -> Binary64(43900364, 84600144, -52)
      [] c = 28 -> Binary64(44795202, 68933925, -52)
      [] c = 29 -> Binary64(45666795, 27619713, -52)
      [] c = 30 -> Binary64(46516319, 117062127, -52)
      [] c = 40 -> Binary64(54003774, 133008691, -52)
      [] c = 50 -> Binary64(60121471, 36315138, -52)
      [] c = 100 -> Binary64(40230006, 125777740, -51)
      [] c = 1000 -> Binary64(38714436, 119257649, -50)

\* lines 107-108
semantic_weight == Lit(75, 100)
lexical_weight == FAdd(FOne, FNeg(semantic_weight))
HardCodedYear == 2025

\* line 114
similarity_score(semantic, lexical) ==
    FAdd(FMul(semantic_weight, semantic), FMul(lexical_weight, lexical))

\* line 115: paper.get('citations', 0) / 10 raises TypeError on a str or None
citation_raises(paper) == Get(paper, "citations", PyInt(0))[1] # "int"
citation_score(paper) == log1p_tenth(Get(paper, "citations", PyInt(0))[2])

\* line 120: 1 + 0.1 * (2025 - int(year))
Tenth == Lit(1, 10)
recency_denominator(year) ==
    FAdd(FOne, FMul(Tenth, FromInt(HardCodedYear - int_value(year))))

\* lines 117-120: int(None), int("n") and the division by zero for a year
\* ten years ahead raise
recency_raises(paper) ==
    LET year == GetOrNone(paper, "year")
    IN  IF year = EmptyStr THEN FALSE
        ELSE \/ int_raises(year)
             \/ recency_denominator(year) = FZero
recency_score(paper) ==
    LET year == GetOrNone(paper, "year")
    IN  IF year = EmptyStr THEN FZero
        ELSE FDiv(FOne, recency_denominator(year))

\* the literals 0.6, 0.25 and 0.15 of line 121
SimilarityShare == Lit(6, 10)
CitationShare == Lit(25, 100)
RecencyShare == Lit(15, 100)

\* variant: the weights of similarity and citations exchanged
relevance_score_swapped(similarity, citation, recency) ==
    FAdd(FAdd(FMul(CitationShare, similarity), FMul(SimilarityShare, citation)),
         FMul(RecencyShare, recency))

\* line 121
relevance_score(similarity, citation, recency) ==
    FAdd(FAdd(FMul(SimilarityShare, similarity), FMul(CitationShare, citation)),
         FMul(RecencyShare, recency))

ScoreFields == {"similarity_score", "citation_score", "recency_score", "relevance_score"}

\* lines 113-122: the copy of the paper with its four scores
scored_raises(paper) == citation_raises(paper) \/ recency_raises(paper)
scored_copy(paper, semantic, lexical) ==
    LET similarity == similarity_score(semantic, lexical)
        citation == citation_score(paper)
        recency == recency_score(paper)
    IN  [f \in SevenFields \cup ScoreFields |->
            CASE f = "similarity_score" -> similarity
              [] f = "citation_score"   -> citation
              [] f = "recency_score"    -> recency
              [] f = "relevance_score"  -> relevance_score(similarity, citation, recency)
              [] OTHER -> paper[f]]

\* variant: a record is placed before the records of equal score
RECURSIVE insert_before_equal(_, _)
insert_before_equal(sorted, x) ==
    IF Len(sorted) = 0 THEN <<x>>
    ELSE IF FGT(Head(sorted).relevance_score, x.relevance_score)
         THEN <<Head(sorted)>> \o insert_before_equal(Tail(sorted), x)
         ELSE <<x>> \o sorted

\* list.sort(key=relevance_score, reverse=True) is stable: a record goes
\* after the records of greater or equal score that precede it in the list
RECURSIVE insert_desc(_, _)
insert_desc(sorted, x) ==
    IF Len(sorted) = 0 THEN <<x>>
    ELSE IF FGE(Head(sorted).relevance_score, x.relevance_score)
         THEN <<Head(sorted)>> \o insert_desc(Tail(sorted), x)
         ELSE <<x>> \o sorted

RECURSIVE sort_desc(_, _)
sort_desc(sorted, rest) ==
    IF Len(rest) = 0 THEN sorted
    ELSE sort_desc(insert_desc(sorted, Head(rest)), Tail(rest))

\* get_paper_vectors: the methods called on the new TfidfVectorizer, in
\* order.  The package module (lines 71-75) fits it first; the top-level
\* module src/paper_ranker.py (lines 47-48) transforms the query first.
RankerModules == {"package", "top_level"}
vectorizer_calls(module) ==
    IF module = "package" THEN <<"fit", "transform", "transform">>
    ELSE <<"transform", "fit_transform">>

\* transform() on a vectorizer that was never fitted raises NotFittedError
transform_unfitted(calls) ==
    \E k \in 1..Len(calls) :
        /\ calls[k] = "transform"
        /\ \A j \in 1..(k - 1) : calls[j] \notin {"fit", "fit_transform"}

\* the terms of a text: runs of two or more word characters that are no
\* English stop word ("be", "de", "he", "eg", "had", "each" are the stop
\* words that the letters a..h spell)
WordChars == {"a", "b", "c", "d", "e", "f", "g", "h", "A", "B", "C"} \cup {Digits[d] : d \in 1..10}
StopWords == {<<"b", "e">>, <<"d", "e">>, <<"h", "e">>, <<"e", "g">>,
              <<"h", "a", "d">>, <<"e", "a", "c", "h">>}
has_term(text) ==
    \E i, j \in 1..Len(text) :
        /\ j > i
        /\ \A k \in i..j : text[k] \in WordChars
        /\ i = 1 \/ text[i - 1] \notin WordChars
        /\ j = Len(text) \/ text[j + 1] \notin WordChars
        /\ lower(SubSeq(text, i, j)) \notin StopWords

\* f"{p.get('title', '')}. {p.get('abstract', '')}" of papers whose title
\* and abstract are str
paper_text(paper) ==
    Get(paper, "title", EmptyStr)[2] \o <<".", " ">> \o Get(paper, "abstract", EmptyStr)[2]

\* fitting on texts without any term raises ValueError (empty vocabulary)
vocabulary_empty(papers) == \A i \in 1..Len(papers) : ~has_term(paper_text(papers[i]))

get_paper_vectors_raises(module, papers) ==
    transform_unfitted(vectorizer_calls(module)) \/ vocabulary_empty(papers)

\* variant: the scores are written into the caller's dict
paper_after_scoring_in_place(paper, scored) == scored

\* line 113: the scores are written into paper.copy(), the caller's dict
\* keeps its fields
paper_after_scoring(paper, scored) == paper

\* the caller's list after the call: line 125 sorts the new list
papers_after_rank(module, papers, semantic, lexical) ==
    IF \/ Len(papers) = 0
       \/ get_paper_vectors_raises(module, papers)
       \/ \E i \in 1..Len(papers) : scored_raises(papers[i])
    THEN papers
    ELSE [i \in 1..Len(papers) |->
            paper_after_scoring(papers[i], scored_copy(papers[i], semantic[i], lexical[i]))]

rank_papers_by_relevance(module, papers, semantic, lexical) ==
    IF Len(papers) = 0 THEN Return(<<>>)
    ELSE IF get_paper_vectors_raises(module, papers) THEN Raise
    ELSE IF \E i \in 1..Len(papers) : scored_raises(papers[i]) THEN Raise
    ELSE Return(sort_desc(<<>>, [i \in 1..Len(papers) |->
                                    scored_copy(papers[i], semantic[i], lexical[i])]))

\* ---- the papers handed to the ranker, each with its two similarities ----
RankPaper(title, year, citations) ==
    [title |-> Str(title), url |-> Str(<<"u">>), year |-> year, venue |-> EmptyStr,
     authors |-> EmptyStr, citations |-> citations, abstract |-> EmptyStr]

Year(digits) == Str(digits)

RankInputs ==
    {\* two papers of equal scores, the first without a term
     [paper |-> RankPaper(<<"a">>, EmptyStr, PyInt(0)), semantic |-> FHalf, lexical |-> FZero],
     [paper |-> RankPaper(<<"b", "b">>, EmptyStr, PyInt(0)), semantic |-> FHalf, lexical |-> FZero],
     \* a cited paper of the year 2025 that matches the query
     [paper |-> RankPaper(<<"c", "c">>, Year(<<"2", "0", "2", "5">>), PyInt(10)),
      semantic |-> FOne, lexical |-> FHalf],
     \* a Semantic Scholar record: int year, and no citations key
     [paper |-> RankPaper(<<"d", "d">>, PyInt(2020), Missing), semantic |-> FZero, lexical |-> FZero],
     \* the enrichment fallback of a result without cited_by
     [paper |-> RankPaper(<<"e", "e">>, EmptyStr, EmptyStr), semantic |-> FHalf, lexical |-> FZero],
     \* a null year, a year that is no number, the year 2026
     [paper |-> RankPaper(<<"f", "f">>, None, PyInt(3)), semantic |-> FHalf, lexical |-> FZero],
     [paper |-> RankPaper(<<"g", "g">>, Str(<<"n">>), PyInt(3)), semantic |-> FHalf, lexical |-> FZero],
     [paper |-> RankPaper(<<"h", "h">>, Year(<<"2", "0", "2", "6">>), PyInt(30)),
      semantic |-> FZero, lexical |-> FHalf],
     \* two papers whose scores are 0.15 + 0.25 * log1p(0.3) in exact
     \* arithmetic and one rounding step apart as floats, the second greater
     [paper |-> RankPaper(<<"a", "b">>, Year(<<"2", "0", "2", "5">>), PyInt(3)),
      semantic |-> FZero, lexical |-> FZero],
     [paper |-> RankPaper(<<"c", "d">>, Year(<<"2", "0", "1", "5">>), PyInt(3)),
      semantic |-> FZero, lexical |-> FHalf]}

\* the calendar year in which the ranker runs
CalendarYears == {HardCodedYear, HardCodedYear + 1}

InitRank ==
    /\ fn = "rank_papers_by_relevance"
    /\ \E items \in SeqsUpTo(RankInputs, MaxRanked), cy \in CalendarYears, m \in RankerModules :
          args = [module   |-> m,
                  papers   |-> [i \in 1..Len(items) |-> items[i].paper],
                  semantic |-> [i \in 1..Len(items) |-> items[i].semantic],
                  lexical  |-> [i \in 1..Len(items) |-> items[i].lexical],
                  current_year |-> cy]
    /\ called = FALSE
    /\ environ = ConfiguredEnviron
    /\ dotenv_file = NoDotenv
    /\ ret = Return(<<>>)
    /\ IdlePipeline
    /\ IdlePaged

CallRank ==
    /\ fn = "rank_papers_by_relevance"
    /\ ~called
    /\ called' = TRUE
    /\ ret' = rank_papers_by_relevance(args.module, args.papers, args.semantic, args.lexical)
    /\ args' = [args EXCEPT !.papers =
                    papers_after_rank(args.module, args.papers, args.semantic, args.lexical)]
    /\ UNCHANGED <<fn, environ, dotenv_file, pvars, gvars>>

SpecRank == InitRank /\ [][CallRank]_vars

\* ---- ranking properties ----
RankCalled == fn = "rank_papers_by_relevance" /\ called
RankReturned == RankCalled /\ ~ret.raised

Unscored(rec) == [f \in SevenFields |-> rec[f]]

\* the floats 0.75, 0.25, 0.6 and 0.15 of the claimed formulas
ThreeQuarters == Lit(3, 4)
Quarter == Lit(1, 4)
SixTenths == Lit(6, 10)
FifteenHundredths == Lit(15, 100)

\* the output record rec is the scored copy of the i-th input paper
ScoredFrom(rec, i) ==
    /\ Unscored(rec) = args.papers[i]
    /\ rec.similarity_score =
          FAdd(FMul(ThreeQuarters, args.semantic[i]), FMul(Quarter, args.lexical[i]))

\* C16: the list rank returns holds the scored copies of the input papers
\* in descending order of relevance_score, and records of equal
\* relevance_score keep the relative order they had in the input.
C16_SortedDescendingStable ==
    RankReturned =>
        /\ Len(ret.value) = Len(args.papers)
        /\ \E p \in Permutations(1..Len(args.papers)) :
              /\ \A k \in 1..Len(ret.value) : ScoredFrom(ret.value[k], p[k])
              /\ \A k, l \in 1..Len(ret.value) :
                    k < l =>
                        /\ FGE(ret.value[k].relevance_score, ret.value[l].relevance_score)
                        /\ FEQ(ret.value[k].relevance_score, ret.value[l].relevance_score)
                              => p[k] < p[l]

\* three papers ranked, the first of the input not first in the output, and
\* two different papers of equal relevance next to each other
C16_Witness ==
    /\ RankReturned
    /\ Len(ret.value) >= 3
    /\ Unscored(ret.value[1]) # args.papers[1]
    /\ \E k \in 1..(Len(ret.value) - 1) :
          /\ FEQ(ret.value[k].relevance_score, ret.value[k + 1].relevance_score)
          /\ Unscored(ret.value[k]) # Unscored(ret.value[k + 1])

YearFine(paper) ==
    \/ paper.year = EmptyStr
    \/ paper.year[1] = "int"
    \/ IsStr(paper.year) /\ Len(paper.year[2]) = 4 /\ IsDigits(paper.year[2])

VectorsComputed == ~get_paper_vectors_raises(args.module, args.papers)

\* C17 (as claimed): on papers whose years are empty or valid and whose
\* similarities were computed, rank does not raise; a paper whose citations are missing, empty or not a number
\* gets citation_score 0, and no citation_score is negative.
C17_CitationsDefaultZero ==
    (RankCalled /\ VectorsComputed /\ \A i \in 1..Len(args.papers) : YearFine(args.papers[i])) =>
        /\ ~ret.raised
        /\ \A k \in 1..Len(ret.value) :
              /\ FGE(ret.value[k].citation_score, FZero)
              /\ ret.value[k].citations[1] # "int" => ret.value[k].citation_score = FZero

CitationsFine(paper) == paper.citations = Missing \/ paper.citations[1] = "int"

YearUnparseable(year) ==
    \/ year \in {EmptyStr, None, Missing}
    \/ IsStr(year) /\ int_raises(year)

\* C18 (as claimed): on papers whose citations are numbers or absent and
\* whose similarities were computed, rank does not raise, and a paper whose year is empty, null, missing or no
\* integer gets recency_score 0.
C18_UnparseableYearZero ==
    (RankCalled /\ VectorsComputed /\ \A i \in 1..Len(args.papers) : CitationsFine(args.papers[i])) =>
        /\ ~ret.raised
        /\ \A k \in 1..Len(ret.value) :
              YearUnparseable(ret.value[k].year) => ret.value[k].recency_score = FZero

ValidYearString(year) == IsStr(year) /\ Len(year[2]) = 4 /\ IsDigits(year[2])

\* C19 (as claimed): for a record whose year is a 4-digit string,
\* recency_score = 1 / (1 + 0.1 * (current_year - year)) with current_year
\* the calendar year of the ranking; it lies in (0,1] and is 1 for a
\* record of the current year.
C19_RecencyFromCalendarYear ==
    RankReturned =>
        \A k \in 1..Len(ret.value) :
            ValidYearString(ret.value[k].year) =>
                LET age == args.current_year - ParseDigits(ret.value[k].year[2])
                    rec == ret.value[k].recency_score
                IN  /\ 10 + age # 0
                    /\ rec = FDiv(FOne, FAdd(FOne, FMul(Tenth, FromInt(age))))
                    /\ FGT(rec, FZero)
                    /\ FGE(FOne, rec)
                    /\ age = 0 => rec = FOne

\* C20: every output record has similarity_score = 0.75 * semantic +
\* 0.25 * lexical of the paper it was copied from, and relevance_score =
\* 0.6 * similarity_score + 0.25 * citation_score + 0.15 * recency_score
\* of its own three scores.
C20_WeightedScores ==
    RankReturned =>
        \A k \in 1..Len(ret.value) :
            /\ \E i \in 1..Len(args.papers) : ScoredFrom(ret.value[k], i)
            /\ ret.value[k].relevance_score =
                  FAdd(FAdd(FMul(SixTenths, ret.value[k].similarity_score),
                            FMul(Quarter, ret.value[k].citation_score)),
                       FMul(FifteenHundredths, ret.value[k].recency_score))

\* two papers ranked, one of them with all three scores positive
C20_Witness ==
    /\ RankReturned
    /\ Len(ret.value) >= 2
    /\ \E k \in 1..Len(ret.value) :
          /\ FGT(ret.value[k].similarity_score, FZero)
          /\ FGT(ret.value[k].citation_score, FZero)
          /\ FGT(ret.value[k].recency_score, FZero)

\* C21: the call leaves the caller's list as it was (same order, same
\* fields and values, no score field), and the returned records are the
\* input records, each with its seven values unchanged and the four
\* scores added.
C21_InputUnmodified ==
    [][(fn = "rank_papers_by_relevance" /\ ~called /\ called') =>
          /\ args'.papers = args.papers
          /\ ~ret'.raised =>
                /\ Len(ret'.value) = Len(args.papers)
                /\ \E p \in Permutations(1..Len(args.papers)) :
                      \A k \in 1..Len(ret'.value) :
                          /\ DOMAIN ret'.value[k] = SevenFields \cup ScoreFields
                          /\ Unscored(ret'.value[k]) = args.papers[p[k]]]_vars

\* two or more papers ranked into another order than the input's
C21_Witness ==
    /\ RankReturned
    /\ Len(ret.value) >= 2
    /\ Unscored(ret.value[1]) # Unscored(args.papers[1])
    /\ \A i \in 1..Len(args.papers) : DOMAIN args.papers[i] = SevenFields

\* C24 (as claimed): on a non-empty list the vectorizer is fitted before
\* it transforms the query or the papers, in both paper_ranker modules.
C24_FittedBeforeTransform ==
    (RankCalled /\ Len(args.papers) > 0) => ~transform_unfitted(vectorizer_calls(args.module))

\* ---- configuration and boundary requests ----
\* C22 (as claimed): without SERPAPI_KEY in the environment and in the
\* .env file that load_dotenv() reads, the pipeline
\* does not fail: Google Scholar contributes nothing and search_papers
\* returns the Semantic Scholar results.
C22_MissingKeySkipsSecondary ==
    load_dotenv(environ, dotenv_file).SERPAPI_KEY = Missing =>
        /\ pc # "import_failed"
        /\ pc = "done" => (~result.raised /\ gs_results = <<>> /\ result.value = sem_results)

\* C23 (as claimed): search_papers(query, 0) raises nothing and returns
\* the empty list, whatever the sources answer.
C23_ZeroResultsEmpty ==
    (pc = "done" /\ args.max_results = 0) => (~result.raised /\ result.value = <<>>)

\* ---- the enrichment pool ----
Pending(futs) == {i \in 1..Len(futs) : futs[i].state = "pending"}

\* C25: at no time are more than max_workers enrichment tasks in progress
\* (asleep or waiting for their lookup), however many results survive; a
\* task leaves the queue only when fewer than max_workers tasks are in a
\* worker's hands.
C25_PoolBounded ==
    /\ Cardinality(Running(futures)) <= pool_size
    /\ Cardinality(Held(futures)) <= pool_size
    /\ \A i \in 1..Len(futures) : i \in Running(futures) => ~futures[i].queued

\* every worker has a task in progress, a task has ended already and
\* another, submitted before a running one was, still waits
C25_Witness ==
    /\ fn = "enrich_gs_results_parallel"
    /\ pool_size < Len(unique_gs)
    /\ Cardinality(Running(futures)) = pool_size
    /\ Pending(futures) # {}
    /\ Resolved(futures) # {}

Completed(futs) == {i \in 1..Len(futs) : futs[i].state \in {"finished", "raised"}}

OthersComplete ==
    all_submitted /\ \A i \in 1..Len(futures) : i \in Hung(futures) \cup Completed(futures)

\* C26 (as claimed): when one task's lookup never returns, every other task
\* of the call is still submitted, started and runs to completion.
C26_OthersComplete == (Hung(futures) # {}) ~> OthersComplete

\* the same, unless a task has raised: what holds of the tasks when the
\* batch is not aborted
OthersCompleteUnlessRaised ==
    (Hung(futures) # {}) ~>
        (OthersComplete \/ \E i \in 1..Len(futures) : futures[i].state = "raised")

\* C27: the call returns only after every submitted enrichment task has
\* terminated: while a work item is in a worker's hands, asleep or in a
\* lookup that has not returned, the pipeline is still inside the call and
\* nothing, the primary records included, has been returned; at the return
\* every future is finished, raised or cancelled.
C27_ReturnsAfterAllTasks ==
    /\ Held(futures) # {} => pc \in InPool
    /\ pc = "done" =>
          \A i \in 1..Len(futures) : futures[i].state \in {"finished", "raised", "cancelled"}

\* primary records are there, a task has raised and a queued one was
\* cancelled, and the call still waits for a task that was started in
\* spite of the raise
C27_Witness ==
    /\ fn = "search_papers"
    /\ pc = "shutdown"
    /\ Len(sem_results) > 0
    /\ \E i, j, k \in 1..Len(futures) :
          /\ i < j
          /\ futures[i].state = "raised"
          /\ futures[j].state = "lookup"
          /\ futures[k].state = "cancelled"

\* C28 (as claimed): no enriched record that search_papers returns is a
\* duplicate of a primary record: similar(e.title, p.title) < 0.9 for every
\* enriched record e and primary record p with str titles.
C28_NoEnrichedDuplicate ==
    (fn = "search_papers" /\ pc = "done" /\ ~result.raised) =>
        \A i \in 1..Len(gs_results), j \in 1..Len(sem_results) :
            ~similar_raises(gs_results[i].title, sem_results[j].title) =>
                ~RatGE(similar(gs_results[i].title, sem_results[j].title), DefaultThreshold)

\* C29: get_googlescholar_results called without sem_results never raises,
\* and returns the empty list whenever Google Scholar returns one organic
\* result or more.
C29_NoneSemResultsEmpty ==
    (sem_results_is_None /\ pc = "done") =>
        /\ ~result.raised
        /\ (gs_resp.kind = "ok" /\ IsList(gs_resp.organic_results)
              /\ Len(gs_resp.organic_results[2]) > 0) => gs_results = <<>>

\* the call without sem_results has returned on a response with organic
\* results
C29_Witness ==
    /\ sem_results_is_None
    /\ pc = "done"
    /\ gs_resp.kind = "ok"
    /\ IsList(gs_resp.organic_results)
    /\ Len(gs_resp.organic_results[2]) > 0
    /\ gs_results = <<>>

\* C30 (as claimed): the page-fetch loop of googlescholar_results ends
\* after finitely many fetches whatever the source answers: while the loop
\* goes on, count is below its limit and every page fetched has raised
\* it, so that no more than CountLimit pages are fetched.
C30_LoopTerminates ==
    (fn = "googlescholar_results" /\ g_pc = "fetch") =>
        (g_count < CountLimit /\ g_fetches <= g_count)

====
